---- MODULE Spec2Model ----
(***************************************************************************)
(* A model of the catalog builders of customgpt-catalog: the loader and    *)
(* language classifier, the per-language id assignment and the corpus-wide *)
(* name reconciliation of build_catalog.py, together with the drifting     *)
(* guess_lang variants of the sibling build scripts.                       *)
(*                                                                         *)
(* Python strings are sequences of one-character strings, so that          *)
(* lower(), strip(), re.sub(), `in`, endswith() and f"{base}-{n}" are      *)
(* computed character by character.  A Hangul syllable is written as its   *)
(* code point, e.g. "U+B370".                                              *)
(***************************************************************************)
EXTENDS Naturals, Sequences, FiniteSets

(***************************************************************************)
(* Characters.                                                             *)
(***************************************************************************)
UPPER ==
    << "A", "B", "C", "D", "E", "F", "G", "H", "I", "J", "K", "L", "M", "N", "O", "P",
       "Q", "R", "S", "T", "U", "V", "W", "X", "Y", "Z" >>
LOWER ==
    << "a", "b", "c", "d", "e", "f", "g", "h", "i", "j", "k", "l", "m", "n", "o", "p",
       "q", "r", "s", "t", "u", "v", "w", "x", "y", "z" >>
DIGITS ==
    << "0", "1", "2", "3", "4", "5", "6", "7", "8", "9" >>
\* the syllables of [\uAC00-\uD7A3] that the translation table uses
HANGUL ==
    << "U+AC00", "U+AC80", "U+ACC4", "U+ADF8", "U+AE30", "U+B108", "U+B354", "U+B370",
      "U+B4DC", "U+B77C", "U+B798", "U+B7EC", "U+B85C", "U+B9AC", "U+BA54", "U+BB38",
      "U+BC88", "U+BD84", "U+BE4C", "U+C11C", "U+C11D", "U+C124", "U+C131", "U+C2A4",
      "U+C2DC", "U+C544", "U+C57D", "U+C5B4", "U+C5ED", "U+C694", "U+C774", "U+C791",
      "U+C911", "U+C99D", "U+CCB4", "U+CD94", "U+CD9C", "U+CE58", "U+CE74", "U+CEE4",
      "U+CF54", "U+D06C", "U+D0C0", "U+D0C8", "U+D130", "U+D134", "U+D1B5", "U+D2B8",
      "U+D2C0", "U+D3EC", "U+D504", "U+D50C" >>

Range(s) == { s[i] : i \in DOMAIN s }
Hangul == Range(HANGUL)
Upper == Range(UPPER)
Lower == Range(LOWER)
Digit == Range(DIGITS)
\* the other ASCII characters of the model, in code point order up to "_"
PUNCT == << " ", "!", "&", ",", "-", ".", "/" >>
Whitespace == { " " }

\* every character, in code point order (the order Python compares strings by)
CodePoints == PUNCT \o DIGITS \o UPPER \o << "_" >> \o LOWER \o HANGUL
Char == Range(CodePoints)
ord == [ c \in Char |-> CHOOSE i \in DOMAIN CodePoints : CodePoints[i] = c ]
LowerOf ==
    [ c \in Char |->
        IF c \in Upper THEN LOWER[CHOOSE i \in DOMAIN UPPER : UPPER[i] = c] ELSE c ]

(***************************************************************************)
(* Python string operations.                                               *)
(***************************************************************************)
\* str.lower()
lower(s) == [ i \in DOMAIN s |-> LowerOf[s[i]] ]

\* s.endswith(t), t in s, s.startswith(t) at position i
endswith(s, t) == Len(t) <= Len(s) /\ SubSeq(s, Len(s) - Len(t) + 1, Len(s)) = t
MatchAt(s, i, t) == i + Len(t) - 1 <= Len(s) /\ SubSeq(s, i, i + Len(t) - 1) = t
contains(s, t) == \E i \in 1..(Len(s) + 1) : MatchAt(s, i, t)
EndsWithAny(s, ts) == \E t \in ts : endswith(s, t)
ContainsAny(s, ts) == \E t \in ts : contains(s, t)

\* str.strip(chars): drop the leading and the trailing characters that are in cs
RECURSIVE lstrip(_, _)
lstrip(s, cs) == IF s # << >> /\ Head(s) \in cs THEN lstrip(Tail(s), cs) ELSE s
RECURSIVE rstrip(_, _)
rstrip(s, cs) ==
    IF s # << >> /\ s[Len(s)] \in cs THEN rstrip(SubSeq(s, 1, Len(s) - 1), cs) ELSE s
strip(s, cs) == rstrip(lstrip(s, cs), cs)

\* re.sub(r"[cs]+", rep, s): every maximal run of characters of cs becomes rep
RECURSIVE re_sub_runs(_, _, _)
re_sub_runs(cs, rep, s) ==
    IF s = << >> THEN << >>
    ELSE IF Head(s) \in cs THEN rep \o re_sub_runs(cs, rep, lstrip(s, cs))
    ELSE << Head(s) >> \o re_sub_runs(cs, rep, Tail(s))

\* s.split(sep) for a one-character sep: empty tokens are kept
RECURSIVE split(_, _)
split(s, sep) ==
    IF \A i \in DOMAIN s : s[i] # sep THEN << s >>
    ELSE LET i == CHOOSE j \in DOMAIN s : s[j] = sep /\ \A k \in 1..(j - 1) : s[k] # sep
         IN  << SubSeq(s, 1, i - 1) >> \o split(SubSeq(s, i + 1, Len(s)), sep)

\* sep.join(toks)
RECURSIVE join(_, _)
join(sep, toks) ==
    IF toks = << >> THEN << >>
    ELSE IF Len(toks) = 1 THEN toks[1]
    ELSE toks[1] \o sep \o join(sep, Tail(toks))

\* str(n) for a natural number
RECURSIVE str(_)
str(n) == IF n < 10 THEN << DIGITS[n + 1] >> ELSE str(n \div 10) \o << DIGITS[(n % 10) + 1] >>

\* s < t and s <= t as Python compares strings: by code point, a prefix first
RECURSIVE StrLess(_, _)
StrLess(s, t) ==
    IF t = << >> THEN FALSE
    ELSE IF s = << >> THEN TRUE
    ELSE IF Head(s) = Head(t) THEN StrLess(Tail(s), Tail(t))
    ELSE ord[Head(s)] < ord[Head(t)]

\* a or b or ... : the first truthy (non-empty) string, else the last
Or(a, b) == IF a # << >> THEN a ELSE b

(***************************************************************************)
(* build_catalog.py: the shared utilities.                                 *)
(***************************************************************************)
item == << "i", "t", "e", "m" >>
SlugChar == Lower \cup Digit

\* slugify without the trimming of "-"
slugify_untrimmed(text) ==
    LET t == re_sub_runs(Char \ SlugChar, << "-" >>, lower(text))
    IN  IF t = << >> THEN item ELSE t

slugify(text) ==
    LET t == strip(re_sub_runs(Char \ SlugChar, << "-" >>, lower(text)), { "-" })
    IN  IF t = << >> THEN item ELSE t

\* SAFE_ID_RE = ^[a-z0-9][a-z0-9._-]*$ with re.IGNORECASE
SAFE_ID_RE_match(s) ==
    /\ s # << >>
    /\ LowerOf[s[1]] \in SlugChar
    /\ \A i \in 2..Len(s) : LowerOf[s[i]] \in SlugChar \cup { ".", "_", "-" }

sanitize_id(raw_id) ==
    IF raw_id = << >> THEN item
    ELSE LET s == strip(raw_id, Whitespace)
         IN  IF SAFE_ID_RE_match(s) THEN s ELSE slugify(s)

\* the test for an ASCII letter alone
is_probably_english_name_any_letter(name) ==
    IF name = << >> THEN FALSE
    ELSE LET s == strip(name, Whitespace)
         IN  \E i \in DOMAIN s : s[i] \in Upper \cup Lower

is_probably_english_name(name) ==
    IF name = << >> THEN FALSE
    ELSE LET s == strip(name, Whitespace)
         IN  IF \E i \in DOMAIN s : s[i] \in Hangul THEN FALSE
             ELSE \E i \in DOMAIN s : s[i] \in Upper \cup Lower

mapping ==
    << << <<"a", "s", "s", "i", "s", "t", "a", "n", "t">>,
         <<"U+C5B4", "U+C2DC", "U+C2A4", "U+D134", "U+D2B8">> >>,
       << <<"a", "n", "a", "l", "y", "z", "e", "r">>,
         <<"U+BD84", "U+C11D", "U+AE30">> >>,
       << <<"a", "n", "a", "l", "y", "s", "i", "s">>,
         <<"U+BD84", "U+C11D">> >>,
       << <<"r", "e", "s", "e", "a", "r", "c", "h">>,
         <<"U+B9AC", "U+C11C", "U+CE58">> >>,
       << <<"d", "e", "s", "k">>,
         <<"U+B370", "U+C2A4", "U+D06C">> >>,
       << <<"d", "a", "t", "a">>,
         <<"U+B370", "U+C774", "U+D130">> >>,
       << <<"r", "e", "p", "o", "r", "t">>,
         <<"U+B9AC", "U+D3EC", "U+D2B8">> >>,
       << <<"w", "r", "i", "t", "e", "r">>,
         <<"U+C791", "U+C131", "U+AE30">> >>,
       << <<"b", "u", "i", "l", "d", "e", "r">>,
         <<"U+BE4C", "U+B354">> >>,
       << <<"c", "a", "t", "a", "l", "o", "g">>,
         <<"U+CE74", "U+D0C8", "U+B85C", "U+ADF8">> >>,
       << <<"a", "t", "l", "a", "s">>,
         <<"U+C544", "U+D2C0", "U+B77C", "U+C2A4">> >>,
       << <<"s", "u", "r", "v", "e", "y">>,
         <<"U+C124", "U+BB38">> >>,
       << <<"w", "e", "i", "g", "h", "t", "i", "n", "g">>,
         <<"U+AC00", "U+C911", "U+CE58">> >>,
       << <<"p", "r", "o">>,
         <<"U+D504", "U+B85C">> >>,
       << <<"p", "l", "u", "s">>,
         <<"U+D50C", "U+B7EC", "U+C2A4">> >>,
       << <<"q", "a">>,
         <<"Q", "A">> >>,
       << <<"q", "c">>,
         <<"Q", "C">> >>,
       << <<"m", "e", "t", "a">>,
         <<"U+BA54", "U+D0C0">> >>,
       << <<"g", "u", "i", "d", "e">>,
         <<"U+AC00", "U+C774", "U+B4DC">> >>,
       << <<"c", "o", "a", "c", "h">>,
         <<"U+CF54", "U+CE58">> >>,
       << <<"p", "l", "a", "n", "n", "e", "r">>,
         <<"U+D50C", "U+B798", "U+B108">> >>,
       << <<"t", "r", "a", "n", "s", "l", "a", "t", "o", "r">>,
         <<"U+BC88", "U+C5ED", "U+AE30">> >>,
       << <<"s", "u", "m", "m", "a", "r", "i", "z", "e", "r">>,
         <<"U+C694", "U+C57D", "U+AE30">> >>,
       << <<"s", "u", "m", "m", "a", "r", "i", "z", "e">>,
         <<"U+C694", "U+C57D">> >>,
       << <<"e", "x", "t", "r", "a", "c", "t", "o", "r">>,
         <<"U+CD94", "U+CD9C", "U+AE30">> >>,
       << <<"v", "a", "l", "i", "d", "a", "t", "o", "r">>,
         <<"U+AC80", "U+C99D", "U+AE30">> >>,
       << <<"c", "h", "e", "c", "k", "e", "r">>,
         <<"U+CCB4", "U+CEE4">> >>,
       << <<"s", "t", "a", "t", "s">>,
         <<"U+D1B5", "U+ACC4">> >>,
       << <<"s", "t", "a", "t", "i", "s", "t", "i", "c", "s">>,
         <<"U+D1B5", "U+ACC4">> >>,
       << <<"c", "o", "d", "e">>,
         <<"U+CF54", "U+B4DC">> >> >>
mapping_get(key, default) ==
    IF \E i \in DOMAIN mapping : mapping[i][1] = key
    THEN mapping[CHOOSE i \in DOMAIN mapping : mapping[i][1] = key][2]
    ELSE default

\* re.fullmatch(r"[A-Z0-9]{2,}", tok)
IsAcronym(tok) == Len(tok) >= 2 /\ \A i \in DOMAIN tok : tok[i] \in Upper \cup Digit

\* auto_translate_name_ko with the dictionary asked before the all-capitals test
auto_translate_name_ko_lookup_first(name_en) ==
    IF name_en = << >> THEN << >>
    ELSE LET s1 == re_sub_runs({ "-", "_", "/" }, << " " >>, name_en)
             s  == strip(re_sub_runs(Whitespace, << " " >>, s1), Whitespace)
             toks == split(s, " ")
             out_tokens == [ i \in DOMAIN toks |-> mapping_get(lower(toks[i]), toks[i]) ]
         IN  strip(join(<< " " >>, out_tokens), Whitespace)

auto_translate_name_ko(name_en) ==
    IF name_en = << >> THEN << >>
    ELSE LET s1 == re_sub_runs({ "-", "_", "/" }, << " " >>, name_en)
             s  == strip(re_sub_runs(Whitespace, << " " >>, s1), Whitespace)
             toks == split(s, " ")
             out_tokens ==
                 [ i \in DOMAIN toks |->
                     IF IsAcronym(toks[i]) THEN toks[i]
                     ELSE mapping_get(lower(toks[i]), toks[i]) ]
         IN  strip(join(<< " " >>, out_tokens), Whitespace)

(***************************************************************************)
(* build_catalog.py: loading and language classification.                  *)
(*                                                                         *)
(* A catalog file is the result of yaml.safe_load on it: "error" when the  *)
(* load raises (load_yaml_safe returns None), "mapping" for a non-empty    *)
(* mapping whose fields are `data`.  A field that is absent, None or ""    *)
(* is the empty string: the code reads every field with `e.get(k) or ...`. *)
(***************************************************************************)
EMPTY_DICT == << >>

yaml     == << ".", "y", "a", "m", "l" >>
yml      == << ".", "y", "m", "l" >>

\* A loaded file is [kind, data]:
\*   "error"        yaml.safe_load raises
\*   "list"         the root is a non-empty list
\*   "mapping"      the root is the mapping `data`
\*   "wrapped"      the root is {catalog_entry: data}, `data` a mapping
\*   "wrapped_list" the root is {catalog_entry: <non-empty list>} and has the fields `data`
\* normalize_entry returns {} for a root that is no mapping, the mapping under the
\* wrapper key if there is one, and the root otherwise
normalize_entry(raw) ==
    IF raw.kind \in { "error", "list" } THEN EMPTY_DICT ELSE raw.data

\* the language-token suffixes and infixes _lang_from_filename looks for
Delimited(toks, befores, afters) ==
    { b \o t \o a : b \in befores, t \in toks, a \in afters }
Sep == { << "_" >>, << "-" >> }
EN_TOKENS == { << "e", "n" >> }
KO_TOKENS == { << "k", "o" >>, << "k", "r" >>, << "k", "o", "r" >> }

_lang_from_filename(fn_lower) ==
    IF \/ EndsWithAny(fn_lower, Delimited(EN_TOKENS, Sep, { yaml, yml }))
       \/ ContainsAny(fn_lower, Delimited(EN_TOKENS, Sep, Sep))
    THEN "en"
    ELSE IF \/ EndsWithAny(fn_lower, Delimited(KO_TOKENS, Sep, { yaml, yml }))
            \/ ContainsAny(fn_lower, Delimited(KO_TOKENS, Sep, Sep))
    THEN "ko"
    ELSE "None"

\* (entry.get("language") or entry.get("lang") or "").lower().strip()
lang_field(entry) == strip(lower(Or(entry.language, entry.lang)), Whitespace)
LANG_KO == { << "k", "o" >>, << "k", "r" >>, << "k", "o", "r" >>,
             << "k", "o", "r", "e", "a", "n" >> }
LANG_EN == { << "e", "n" >>, << "e", "n", "g" >>,
             << "e", "n", "g", "l", "i", "s", "h" >> }

\* guess_lang with the field consulted before the file name
guess_lang_field_first(entry, filename) ==
    LET by_fn == _lang_from_filename(lower(filename))
    IN  IF lang_field(entry) \in LANG_KO THEN "ko"
        ELSE IF lang_field(entry) \in LANG_EN THEN "en"
        ELSE IF by_fn # "None" THEN by_fn
        ELSE "en"

guess_lang(entry, filename) ==
    LET by_fn == _lang_from_filename(lower(filename))
    IN  IF by_fn # "None" THEN by_fn
        ELSE IF lang_field(entry) \in LANG_KO THEN "ko"
        ELSE IF lang_field(entry) \in LANG_EN THEN "en"
        ELSE "en"

(***************************************************************************)
(* build_catalog.py: _assign_ids.  The entries are objects shared by       *)
(* all_loaded and the two language lists: `objs` is the sequence of the    *)
(* objects and a list holds indices into it.                               *)
(***************************************************************************)
\* the display name with the generic name taken before name_en
base_name_generic_first(e) == Or(e.name, Or(e.name_en, Or(e.name_ko, Or(e._src_fn, item))))

base_name(e) == Or(e.name_en, Or(e.name, Or(e.name_ko, Or(e._src_fn, item))))

\* the first loop of _assign_ids, for one entry
base_id(e) ==
    sanitize_id(IF e.gpt_id # << >> THEN e.gpt_id ELSE slugify(base_name(e)))

dict_get(d, k, default) == IF k \in DOMAIN d THEN d[k] ELSE default
dict_set(d, k, v) == [ x \in DOMAIN d \cup { k } |-> IF x = k THEN v ELSE d[x] ]

\* the suffix counting the collisions instead of the occurrences
suffixed_from_one(base, n) == base \o << "-" >> \o str(n - 1)

\* f"{base}-{n}"
suffixed(base, n) == base \o << "-" >> \o str(n)

\* the second loop of _assign_ids, from position k of the list on
RECURSIVE resolve_collisions(_, _, _, _)
resolve_collisions(objs, list, k, seen) ==
    IF k > Len(list) THEN objs
    ELSE LET base == objs[list[k]]._id
             n == dict_get(seen, base, 0) + 1
         IN  resolve_collisions(
                 IF n > 1 THEN [ objs EXCEPT ![list[k]]._id = suffixed(base, n) ]
                 ELSE objs,
                 list, k + 1, dict_set(seen, base, n))

_assign_ids(objs, list) ==
    LET first == [ h \in DOMAIN objs |->
                     IF \E k \in DOMAIN list : list[k] = h
                     THEN [ objs[h] EXCEPT !._slug = slugify(base_name(objs[h])),
                                           !._id = base_id(objs[h]) ]
                     ELSE objs[h] ]
    IN  resolve_collisions(first, list, 1, << >>)

(***************************************************************************)
(* build_catalog.py: the corpus-wide passes of build().                    *)
(***************************************************************************)
\* the index built with url_to_en[url] = en instead of setdefault
RECURSIVE build_url_to_en_last_wins(_, _, _)
build_url_to_en_last_wins(objs, k, map) ==
    IF k > Len(objs) THEN map
    ELSE LET url == strip(objs[k].url, Whitespace)
             en == strip(objs[k].name_en, Whitespace)
         IN  build_url_to_en_last_wins(objs, k + 1,
                 IF url # << >> /\ is_probably_english_name(en)
                 THEN dict_set(map, url, en)
                 ELSE map)

\* url -> canonical English name, from position k of all_loaded on
RECURSIVE build_url_to_en(_, _, _)
build_url_to_en(objs, k, map) ==
    IF k > Len(objs) THEN map
    ELSE LET url == strip(objs[k].url, Whitespace)
             en == strip(objs[k].name_en, Whitespace)
         IN  build_url_to_en(objs, k + 1,
                 IF url # << >> /\ is_probably_english_name(en) /\ url \notin DOMAIN map
                 THEN dict_set(map, url, en)
                 ELSE map)

\* the restoration without the test that the current name is not English
restore_name_en_always(e, map) ==
    LET url == strip(e.url, Whitespace)
    IN  IF url # << >> /\ url \in DOMAIN map
        THEN [ e EXCEPT !.name_en = map[url] ]
        ELSE e

restore_name_en(e, map) ==
    LET url == strip(e.url, Whitespace)
        en == strip(e.name_en, Whitespace)
    IN  IF url # << >> /\ ~is_probably_english_name(en) /\ url \in DOMAIN map
        THEN [ e EXCEPT !.name_en = map[url] ]
        ELSE e

human == << "h", "u", "m", "a", "n" >>
auto  == << "a", "u", "t", "o" >>

\* the synthesis pass stamping `human` on every entry that has a name_ko
ensure_name_ko_stamp_human(e) ==
    IF e.name_ko = << >>
    THEN LET ko == auto_translate_name_ko(Or(e.name_en, e.name))
         IN  IF ko # << >>
             THEN [ e EXCEPT !.name_ko = ko, !.name_ko_policy = auto ]
             ELSE e
    ELSE [ e EXCEPT !.name_ko_policy = human ]

ensure_name_ko(e) ==
    IF e.name_ko = << >>
    THEN LET ko == auto_translate_name_ko(Or(e.name_en, e.name))
         IN  IF ko # << >>
             THEN [ e EXCEPT !.name_ko = ko, !.name_ko_policy = auto ]
             ELSE e
    ELSE IF e.name_ko_policy = << >> THEN [ e EXCEPT !.name_ko_policy = human ]
         ELSE e

sort_key(e) == << lower(Or(e.name_en, Or(e.name, e._id))), lower(e.name_ko) >>
KeyLess(a, b) == StrLess(a[1], b[1]) \/ (a[1] = b[1] /\ StrLess(a[2], b[2]))

\* list.sort(key=sort_key): stable
RECURSIVE insert_sorted(_, _, _)
insert_sorted(objs, sorted_list, h) ==
    IF sorted_list = << >> THEN << h >>
    ELSE IF KeyLess(sort_key(objs[h]), sort_key(objs[Head(sorted_list)]))
    THEN << h >> \o sorted_list
    ELSE << Head(sorted_list) >> \o insert_sorted(objs, Tail(sorted_list), h)
RECURSIVE sort_by_key(_, _)
sort_by_key(objs, list) ==
    IF list = << >> THEN << >>
    ELSE insert_sorted(objs, sort_by_key(objs, SubSeq(list, 1, Len(list) - 1)),
                       list[Len(list)])

\* write_atlas_yaml: the items written for a list of entries (the fields the model carries)
none == << "n", "o", "n", "e" >>
atlas_obj(e) ==
    [ gpt_id |-> Or(e.gpt_id, e._id),
      en |-> Or(e.name_en, e.name),
      url |-> e.url,
      ko |-> e.name_ko,
      ko_policy |-> IF e.name_ko # << >> THEN lower(Or(e.name_ko_policy, none)) ELSE << >> ]
write_atlas_yaml(objs, list) ==
    LET kept == SelectSeq(list, LAMBDA h : /\ Or(objs[h].gpt_id, objs[h]._id) # << >>
                                          /\ Or(objs[h].name_en, objs[h].name) # << >>
                                          /\ objs[h].url # << >>)
    IN  [ k \in DOMAIN kept |-> atlas_obj(objs[kept[k]]) ]

\* sorted(os.listdir(CATALOG_DIR))
RECURSIVE sorted(_)
sorted(names) ==
    IF names = { } THEN << >>
    ELSE LET m == CHOOSE x \in names : \A y \in names \ { x } : StrLess(x, y)
         IN  << m >> \o sorted(names \ { m })

(***************************************************************************)
(* The language classifiers of the sibling build scripts.                  *)
(***************************************************************************)
\* re.sub(r"\.(yaml|yml)$", "", fn)
strip_yaml_ext(fn) ==
    IF endswith(fn, yaml) THEN SubSeq(fn, 1, Len(fn) - Len(yaml))
    ELSE IF endswith(fn, yml) THEN SubSeq(fn, 1, Len(fn) - Len(yml))
    ELSE fn

\* re.search(r"(^|[_-])(t1|t2|...)(?=[_-]|$)", base)
token_search(toks, base) ==
    \E i \in DOMAIN base : \E t \in toks :
        /\ MatchAt(base, i, t)
        /\ i = 1 \/ base[i - 1] \in { "_", "-" }
        /\ i + Len(t) - 1 = Len(base) \/ base[i + Len(t)] \in { "_", "-" }

\* build_catalog_tistory_best.py
guess_lang_tistory_best(entry, filename) ==
    LET base == strip_yaml_ext(lower(filename))
    IN  IF token_search(LANG_KO, base) THEN "ko"
        ELSE IF token_search(LANG_EN, base) THEN "en"
        ELSE IF lang_field(entry) \in LANG_KO THEN "ko"
        ELSE IF lang_field(entry) \in LANG_EN THEN "en"
        ELSE "en"

\* build_catalog_github_moreinfo_patched.py
guess_lang_moreinfo(entry, filename) ==
    LET base == strip_yaml_ext(lower(filename))
    IN  IF token_search(LANG_EN, base) THEN "en"
        ELSE IF token_search(LANG_KO, base) THEN "ko"
        ELSE IF lang_field(entry) \in LANG_KO THEN "ko"
        ELSE IF lang_field(entry) \in LANG_EN THEN "en"
        ELSE "unknown"

\* build_catalog_tistory.py
guess_lang_tistory(entry, filename) ==
    LET fn == lower(filename)
    IN  IF ContainsAny(fn, Delimited(KO_TOKENS, Sep, { << >> })) THEN "ko"
        ELSE IF ContainsAny(fn, Delimited(EN_TOKENS, Sep, { << >> })) THEN "en"
        ELSE IF lower(Or(entry.language, entry.lang)) \in LANG_KO THEN "ko"
        ELSE "en"

\* build_catalog_5.py
guess_lang_5(entry, filename) ==
    LET fn == lower(filename)
        name == Or(entry.name_ko, Or(entry.name, entry.name_en))
    IN  IF \/ EndsWithAny(fn, Delimited(EN_TOKENS, Sep, { yaml }))
           \/ contains(fn, << "_", "e", "n", "_" >>)
        THEN "en"
        ELSE IF \/ EndsWithAny(fn, Delimited({ << "k", "o" >>, << "k", "r" >> }, Sep, { yaml }))
                \/ ContainsAny(fn, { << "_", "k", "o", "_" >>, << "_", "k", "r", "_" >> })
        THEN "ko"
        ELSE IF lang_field(entry) \in LANG_KO THEN "ko"
        ELSE IF lang_field(entry) \in LANG_EN THEN "en"
        ELSE IF \E i \in DOMAIN name : name[i] \in Hangul THEN "ko"
        ELSE "en"

\* build_tistory_catalog.py
is_korean(entry, filename) ==
    LET fn == lower(filename)
        name == Or(entry.name_ko, entry.name)
    IN  \/ EndsWithAny(fn, Delimited({ << "k", "o" >>, << "k", "r" >> }, { << "_" >> }, { yaml }))
        \/ ContainsAny(fn, { << "_", "k", "o", "_" >>, << "_", "k", "r", "_" >> })
        \/ lower(entry.language) \in { << "k", "o" >>, << "k", "r" >>,
                                       << "k", "o", "r", "e", "a", "n" >> }
        \/ \E i \in DOMAIN name : name[i] \in Hangul

\* sanitize_id of the tistory / github-pages builders
sanitize_id_pages(s) ==
    LET s1 == lower(strip(s, Whitespace))
        s2 == re_sub_runs(Char \ (SlugChar \cup { "-", "_" }), << "-" >>, s1)
        s3 == strip(re_sub_runs({ "-" }, << "-" >>, s2), { "-" })
    IN  IF s3 = << >> THEN item ELSE s3

\* os.path.splitext(fn)[0]
splitext_root(fn) ==
    LET dots == { i \in DOMAIN fn : fn[i] = "." /\ \E j \in 1..(i - 1) : fn[j] # "." }
    IN  IF dots = { } THEN fn
        ELSE SubSeq(fn, 1, (CHOOSE i \in dots : \A j \in dots : j <= i) - 1)

\* raw_id = e.get("_id") or e.get("id") or e.get("gpt_id") or splitext(fn)[0]
pages_id(e, fn) == sanitize_id_pages(Or(e._id, Or(e.id, Or(e.gpt_id, splitext_root(fn)))))

(***************************************************************************)
(* The state of one build run.                                             *)
(***************************************************************************)
VARIABLES
    script,      \* the build script that is running
    catalog,     \* CATALOG_DIR: file name -> the file as yaml.safe_load sees it
    visited,     \* the names of os.listdir(CATALOG_DIR) the loading loop has taken
    pc,          \* the position in build()
    all_loaded,  \* the entry objects, in load order
    ko_entries,  \* the Korean list: indices into all_loaded
    en_entries,  \* the English list: indices into all_loaded
    url_to_en,   \* url -> canonical English name
    atlas,       \* the items of the combined atlas.yaml, once it is written
    previous,    \* the corpus the previous run of the script ended with, if any
    call,        \* a call of one of the text utilities: its name, argument and result
    wb,          \* gpt_index.xlsx: sheet name -> the rows under the header row
    seen,        \* the gpt_ids an index script has met (seen, existing_ids)
    today_iso    \* date.today().isoformat() of the run

vars ==
    << script, catalog, visited, pc, all_loaded, ko_entries, en_entries, url_to_en, atlas,
       previous, call, wb, seen, today_iso >>

\* the next name of `for fn in sorted(os.listdir(CATALOG_DIR))`
unvisited == DOMAIN catalog \ visited
next_sorted == sorted(unvisited)[1]

(***************************************************************************)
(* The catalogs a run may find.                                            *)
(***************************************************************************)
MaxFiles == 3

NoFields == [ gpt_id |-> << >>, name |-> << >>, name_en |-> << >>, name_ko |-> << >>,
              name_ko_policy |-> << >>, url |-> << >>, language |-> << >>,
              lang |-> << >>, id |-> << >>, _src_fn |-> << >>, _lang |-> << >>, _slug |-> << >>,
              _id |-> << >> ]

FN_A == << "a" >> \o yaml
FN_B == << "b", "_", "k", "o" >> \o yaml
FN_C == << "c" >> \o yml
FN_D == << "d", "_", "e", "n" >> \o yaml
FileNames == { FN_A, FN_B, FN_C, FN_D }

ID_A  == << "a" >>
ID_A2 == << "a", "-", "2" >>
NAME_A == << "A" >>
NAME_DESK == << "D", "e", "s", "k" >>
NAME_DATA == << "D", "a", "t", "a", " ", "D", "e", "s", "k" >>
NAME_HANGUL == << "U+B370", "U+C2A4", "U+D06C" >>
URL_1 == << "u", "/", "1" >>
FIELD_KO == << "K", "O" >>
FIELD_EN == << "e", "n" >>

\* entries that differ in what decides their id and their language
IdDocs ==
    { [ NoFields EXCEPT !.gpt_id = g, !.name_en = n, !.language = l ] :
        g \in { << >>, ID_A, ID_A2 }, n \in { << >>, NAME_A }, l \in { << >>, FIELD_KO } }
\* entries that differ in what the name reconciliation reads
NameDocs ==
    { [ NoFields EXCEPT !.url = URL_1, !.name_en = n, !.name_ko = k ] :
        n \in { << >>, NAME_DESK, NAME_DATA, NAME_HANGUL }, k \in { << >>, NAME_HANGUL } }
    \cup { [ NoFields EXCEPT !.name_en = n ] : n \in { NAME_DESK, NAME_HANGUL } }

\* entries that differ in the Korean name and the policy their file declares
PolicyDocs ==
    { [ NoFields EXCEPT !.name_en = n, !.name_ko = k, !.name_ko_policy = p ] :
        n \in { << >>, NAME_DESK }, k \in { << >>, NAME_HANGUL }, p \in { << >>, auto } }

\* entries that differ in which of gpt_id, name_en, name and name_ko they have
PriorityDocs ==
    { [ NoFields EXCEPT !.gpt_id = ID_A, !.name_en = NAME_A, !.name = NAME_DESK,
                        !.name_ko = NAME_HANGUL ],
      [ NoFields EXCEPT !.name_en = NAME_A, !.name = NAME_DESK, !.name_ko = NAME_HANGUL ],
      [ NoFields EXCEPT !.name = NAME_DESK, !.name_ko = NAME_HANGUL ],
      [ NoFields EXCEPT !.name_ko = NAME_HANGUL ],
      [ NoFields EXCEPT !.gpt_id = ID_A ],
      NoFields }

\* entries that an atlas takes with the gpt_id of their file, in either language
AtlasDocs ==
    { [ NoFields EXCEPT !.gpt_id = ID_A, !.name_en = NAME_A, !.url = URL_1, !.language = l ] :
        l \in { << >>, FIELD_KO } }

Unparsable == [ kind |-> "error", data |-> NoFields ]
Files(docs) == { [ kind |-> "mapping", data |-> d ] : d \in docs } \cup { Unparsable }

Catalogs(docs) ==
    UNION { [ names -> Files(docs) ] :
              names \in { s \in SUBSET FileNames : Cardinality(s) <= MaxFiles } }

NotWritten == [ written |-> FALSE, items |-> << >> ]
NoCall == [ op |-> "none", of |-> << >>, value |-> << >> ]
\* no gpt_index.xlsx yet: each script makes its sheets with the header row only
NoWorkbook == [ gpt_index_ko |-> << >>, gpt_index_en |-> << >>, index_base |-> << >> ]

InitRun(scripts, catalogs) ==
    /\ script \in scripts
    /\ catalog \in catalogs
    /\ visited = { }
    /\ pc = "load"
    /\ all_loaded = << >>
    /\ ko_entries = << >>
    /\ en_entries = << >>
    /\ url_to_en = << >>
    /\ atlas = NotWritten
    /\ previous = << >>
    /\ call = NoCall
    /\ wb = NoWorkbook
    /\ seen = { }
    /\ today_iso = str(1)

(***************************************************************************)
(* build_catalog.py: build().                                              *)
(***************************************************************************)
IsYamlName(fn) == endswith(lower(fn), yaml) \/ endswith(lower(fn), yml)

\* one iteration of the loading loop
Load ==
    /\ script = "build_catalog"
    /\ pc = "load"
    /\ unvisited # { }
    /\ LET fn == next_sorted
           raw == catalog[fn]
           entry == normalize_entry(raw)
           loaded == [ entry EXCEPT !._src_fn = fn, !._lang = guess_lang(entry, fn) ]
       IN  /\ visited' = visited \cup { fn }
           /\ IF ~IsYamlName(fn) \/ raw.kind = "error" \/ entry = EMPTY_DICT
              THEN UNCHANGED << all_loaded, ko_entries, en_entries >>
              ELSE /\ all_loaded' = Append(all_loaded, loaded)
                   /\ IF loaded._lang = "ko"
                      THEN /\ ko_entries' = Append(ko_entries, Len(all_loaded) + 1)
                           /\ UNCHANGED en_entries
                      ELSE /\ en_entries' = Append(en_entries, Len(all_loaded) + 1)
                           /\ UNCHANGED ko_entries
    /\ UNCHANGED << wb, seen, today_iso, call, atlas, previous, script, catalog, pc, url_to_en >>

AssignIdsKo ==
    /\ script = "build_catalog"
    /\ pc = "load"
    /\ unvisited = { }
    /\ all_loaded' = _assign_ids(all_loaded, ko_entries)
    /\ pc' = "ids_en"
    /\ UNCHANGED << wb, seen, today_iso, call, atlas, previous, script, catalog, visited, ko_entries, en_entries, url_to_en >>

AssignIdsEn ==
    /\ script = "build_catalog"
    /\ pc = "ids_en"
    /\ all_loaded' = _assign_ids(all_loaded, en_entries)
    /\ pc' = "index"
    /\ UNCHANGED << wb, seen, today_iso, call, atlas, previous, script, catalog, visited, ko_entries, en_entries, url_to_en >>

\* the three name passes are the same code in build_catalog.py and build_catalog_5.py
BuildUrlToEnIn(s) ==
    /\ script = s
    /\ pc = "index"
    /\ url_to_en' = build_url_to_en(all_loaded, 1, << >>)
    /\ pc' = "restore"
    /\ UNCHANGED << wb, seen, today_iso, call, atlas, previous, script, catalog, visited, all_loaded, ko_entries, en_entries >>

\* the restoration pass with the synthesis done first, on the names as loaded
RestoreNameEnIn_synth_first(s) ==
    /\ script = s
    /\ pc = "restore"
    /\ all_loaded' = [ h \in DOMAIN all_loaded |->
                         restore_name_en(ensure_name_ko(all_loaded[h]), url_to_en) ]
    /\ pc' = "synth"
    /\ UNCHANGED << wb, seen, today_iso, call, atlas, previous, script, catalog, visited, ko_entries, en_entries, url_to_en >>

RestoreNameEnIn(s) ==
    /\ script = s
    /\ pc = "restore"
    /\ all_loaded' = [ h \in DOMAIN all_loaded |-> restore_name_en(all_loaded[h], url_to_en) ]
    /\ pc' = "synth"
    /\ UNCHANGED << wb, seen, today_iso, call, atlas, previous, script, catalog, visited, ko_entries, en_entries, url_to_en >>

\* the synthesis pass saving each synthesized name_ko into the entry's source file
EnsureNameKoIn_write_back(s) ==
    /\ script = s
    /\ pc = "synth"
    /\ all_loaded' = [ h \in DOMAIN all_loaded |-> ensure_name_ko(all_loaded[h]) ]
    /\ catalog' =
         [ fn \in DOMAIN catalog |->
             IF \E h \in DOMAIN all_loaded : all_loaded[h]._src_fn = fn
             THEN LET h == CHOOSE g \in DOMAIN all_loaded : all_loaded[g]._src_fn = fn
                  IN  [ catalog[fn] EXCEPT !.data.name_ko = all_loaded'[h].name_ko ]
             ELSE catalog[fn] ]
    /\ pc' = IF s = "build_catalog_5" THEN "split" ELSE "sort"
    /\ UNCHANGED << wb, seen, today_iso, call, atlas, previous, script, visited, ko_entries, en_entries, url_to_en >>

EnsureNameKoIn(s) ==
    /\ script = s
    /\ pc = "synth"
    /\ all_loaded' = [ h \in DOMAIN all_loaded |-> ensure_name_ko(all_loaded[h]) ]
    /\ pc' = IF s = "build_catalog_5" THEN "split" ELSE "sort"
    /\ UNCHANGED << wb, seen, today_iso, call, atlas, previous, script, catalog, visited, ko_entries, en_entries, url_to_en >>

SortListsIn(s) ==
    /\ script = s
    /\ pc = "sort"
    /\ ko_entries' = sort_by_key(all_loaded, ko_entries)
    /\ en_entries' = sort_by_key(all_loaded, en_entries)
    /\ pc' = "render"
    /\ UNCHANGED << wb, seen, today_iso, call, atlas, previous, script, catalog, visited, all_loaded, url_to_en >>

\* write_atlas_yaml(ko_entries + en_entries, atlas_site_path); the Korean and the English
\* atlas hold the items of this one that come from their list
WriteAtlas ==
    /\ script = "build_catalog"
    /\ pc = "render"
    /\ ~atlas.written
    /\ atlas' = [ written |-> TRUE,
                  items |-> write_atlas_yaml(all_loaded, ko_entries \o en_entries) ]
    /\ UNCHANGED << wb, seen, today_iso, call, previous, script, catalog, visited, pc, all_loaded, ko_entries,
                    en_entries, url_to_en >>

BuildUrlToEn == BuildUrlToEnIn("build_catalog")
RestoreNameEn == RestoreNameEnIn("build_catalog")
EnsureNameKo == EnsureNameKoIn("build_catalog")
SortLists == SortListsIn("build_catalog")

Init ==
    InitRun({ "build_catalog" },
            Catalogs(IdDocs) \cup Catalogs(NameDocs) \cup Catalogs(PolicyDocs)
                \cup Catalogs(PriorityDocs) \cup Catalogs(AtlasDocs))

Next ==
    \/ Load
    \/ AssignIdsKo
    \/ AssignIdsEn
    \/ BuildUrlToEn
    \/ RestoreNameEn
    \/ EnsureNameKo
    \/ SortLists
    \/ WriteAtlas

Spec == Init /\ [][Next]_vars

(***************************************************************************)
(* build_catalog.py run a second time on the same catalog directory.       *)
(***************************************************************************)
\* the script ends and is started again: build() begins with empty lists
Rerun ==
    /\ script = "build_catalog"
    /\ pc = "render"
    /\ atlas.written
    /\ previous = << >>
    /\ previous' = << all_loaded, ko_entries, en_entries, atlas.items >>
    /\ visited' = { }
    /\ pc' = "load"
    /\ all_loaded' = << >>
    /\ ko_entries' = << >>
    /\ en_entries' = << >>
    /\ url_to_en' = << >>
    /\ atlas' = NotWritten
    /\ UNCHANGED << wb, seen, today_iso, call, script, catalog >>

\* entries that go through every pass of build()
InitTwice ==
    LET TwiceDocs ==
            { [ NoFields EXCEPT !.gpt_id = ID_A, !.language = FIELD_KO ],
              [ NoFields EXCEPT !.gpt_id = ID_A ],
              [ NoFields EXCEPT !.url = URL_1, !.name_en = NAME_DATA ],
              [ NoFields EXCEPT !.url = URL_1, !.name_en = NAME_HANGUL ],
              [ NoFields EXCEPT !.name_en = NAME_DESK, !.name_ko = NAME_HANGUL ],
              [ NoFields EXCEPT !.name_ko = NAME_HANGUL, !.name_ko_policy = auto ] }
    IN  InitRun({ "build_catalog" }, Catalogs(TwiceDocs))

NextTwice ==
    \/ Load
    \/ AssignIdsKo
    \/ AssignIdsEn
    \/ BuildUrlToEn
    \/ RestoreNameEn
    \/ EnsureNameKo
    \/ SortLists
    \/ WriteAtlas
    \/ Rerun

SpecTwice == InitTwice /\ [][NextTwice]_vars

(***************************************************************************)
(* build_catalog_5.py: build().                                            *)
(***************************************************************************)
Load5 ==
    /\ script = "build_catalog_5"
    /\ pc = "load"
    /\ unvisited # { }
    /\ LET fn == next_sorted
           raw == catalog[fn]
           entry == normalize_entry(raw)
           e1 == [ entry EXCEPT !._src_fn = fn, !._lang = guess_lang_5(entry, fn) ]
           loaded == [ e1 EXCEPT !._slug = slugify(base_name(e1)), !._id = base_id(e1) ]
       IN  /\ visited' = visited \cup { fn }
           /\ IF ~endswith(lower(fn), yaml) \/ raw.kind = "error" \/ entry = EMPTY_DICT
              THEN UNCHANGED all_loaded
              ELSE all_loaded' = Append(all_loaded, loaded)
    /\ UNCHANGED << wb, seen, today_iso, call, atlas, previous, script, catalog, pc, ko_entries, en_entries, url_to_en >>

\* the suffixing loop runs over all entries, whatever their language
ResolveCollisions5 ==
    /\ script = "build_catalog_5"
    /\ pc = "load"
    /\ unvisited = { }
    /\ all_loaded' = resolve_collisions(all_loaded, [ h \in DOMAIN all_loaded |-> h ], 1, << >>)
    /\ pc' = "index"
    /\ UNCHANGED << wb, seen, today_iso, call, atlas, previous, script, catalog, visited, ko_entries, en_entries, url_to_en >>

BuildUrlToEn5 == BuildUrlToEnIn("build_catalog_5")
RestoreNameEn5 == RestoreNameEnIn("build_catalog_5")
EnsureNameKo5 == EnsureNameKoIn("build_catalog_5")

\* [e for e in all_entries if <cond>], as indices
select_lang(objs, lang) ==
    SelectSeq([ h \in DOMAIN objs |-> h ], LAMBDA h : objs[h]._lang = lang)

\* build_catalog_5.py: e["_lang"] == lang or e.get(name_key)
select_lang_or_name(objs, lang) ==
    SelectSeq([ h \in DOMAIN objs |-> h ],
              LAMBDA h : \/ objs[h]._lang = lang
                         \/ (IF lang = "ko" THEN objs[h].name_ko ELSE objs[h].name_en) # << >>)

Split5 ==
    /\ script = "build_catalog_5"
    /\ pc = "split"
    /\ ko_entries' = select_lang_or_name(all_loaded, "ko")
    /\ en_entries' = select_lang_or_name(all_loaded, "en")
    /\ pc' = "sort"
    /\ UNCHANGED << wb, seen, today_iso, call, atlas, previous, script, catalog, visited, all_loaded, url_to_en >>

SortLists5 == SortListsIn("build_catalog_5")

Init5 == InitRun({ "build_catalog_5" }, Catalogs(IdDocs))

Next5 ==
    \/ Load5
    \/ ResolveCollisions5
    \/ BuildUrlToEn5
    \/ RestoreNameEn5
    \/ EnsureNameKo5
    \/ Split5
    \/ SortLists5

Spec5 == Init5 /\ [][Next5]_vars

(***************************************************************************)
(* The loading loops of the other builders, on a catalog of one file whose *)
(* name is built from language tokens and from words that contain them.    *)
(* The runs find no gpt_index.xlsx, so apply_excel_override changes no     *)
(* field of the model.                                                     *)
(***************************************************************************)
MaxSegments == 3

Segments ==
    { << "e", "n" >>, << "e", "n", "g" >>, << "e", "n", "g", "l", "i", "s", "h" >>,
      << "k", "o" >>, << "k", "r" >>, << "k", "o", "r" >>,
      << "k", "o", "r", "e", "a", "n" >>,
      << "g", "r", "e", "e", "n" >>, << "e", "n", "t", "r", "y" >>,
      << "k", "o", "r", "e", "a" >> }

RECURSIVE Stems(_)
Stems(n) ==
    IF n = 1 THEN Segments
    ELSE { s \o d \o w : s \in Stems(n - 1), d \in Sep, w \in Segments }

\* one file, named by at most MaxSegments segments, whose entry has one of three
\* language fields or only a Korean name
LangCatalogs ==
    LET LangFileNames ==
            { s \o e : s \in UNION { Stems(n) : n \in 1..MaxSegments }, e \in { yaml, yml } }
        LangDocs ==
            { [ NoFields EXCEPT !.language = l ] : l \in { << >>, FIELD_KO, FIELD_EN } }
            \cup { [ NoFields EXCEPT !.name_ko = NAME_HANGUL ] }
    IN  { [ n \in { fn } |-> [ kind |-> "mapping", data |-> d ] ] :
            fn \in LangFileNames, d \in LangDocs }

\* the loading loop of a builder that gives an entry its _lang and _id and splits later
guess_lang_of(s, e, fn) ==
    CASE s = "build_catalog_tistory_best" -> guess_lang_tistory_best(e, fn)
      [] s = "build_catalog_github_moreinfo_patched" -> guess_lang_moreinfo(e, fn)
      [] s = "build_catalog_tistory" -> guess_lang_tistory(e, fn)

LoadPages(s) ==
    /\ script = s
    /\ pc = "load"
    /\ unvisited # { }
    /\ LET fn == next_sorted
           raw == catalog[fn]
           e == raw.data
           loaded == [ e EXCEPT !._lang = guess_lang_of(s, e, fn), !._id = pages_id(e, fn) ]
           \* e = raw.get("catalog_entry") or raw.get("gpt") or raw: a list under the
           \* wrapper key is taken as the entry, and only build_catalog_tistory_best.py
           \* tests isinstance(e, dict) before it calls e.get
           step == IF ~IsYamlName(fn) \/ raw.kind \in { "error", "list" } THEN "skip"
                   ELSE IF raw.kind = "wrapped_list"
                   THEN IF s = "build_catalog_tistory_best" THEN "skip" ELSE "raise"
                   ELSE "append"
       IN  /\ visited' = visited \cup { fn }
           /\ all_loaded' = IF step = "append" THEN Append(all_loaded, loaded) ELSE all_loaded
           /\ pc' = IF step = "raise" THEN "crashed" ELSE pc
    /\ UNCHANGED << wb, seen, today_iso, call, atlas, previous, script, catalog, ko_entries, en_entries, url_to_en >>

LoadTistoryBest == LoadPages("build_catalog_tistory_best")
LoadMoreinfo == LoadPages("build_catalog_github_moreinfo_patched")
LoadTistory == LoadPages("build_catalog_tistory")

\* ko_entries = [e for e in all_entries if e["_lang"] == "ko"], and the same for "en"
SplitByLang ==
    /\ script \in { "build_catalog_tistory_best", "build_catalog_github_moreinfo_patched",
                    "build_catalog_tistory" }
    /\ pc = "load"
    /\ unvisited = { }
    /\ ko_entries' = select_lang(all_loaded, "ko")
    /\ en_entries' = select_lang(all_loaded, "en")
    /\ pc' = "render"
    /\ UNCHANGED << wb, seen, today_iso, call, atlas, previous, script, catalog, visited, all_loaded, url_to_en >>

\* build_tistory_catalog.py lists only the Korean entries; os.listdir is not sorted
LoadTistoryCatalog ==
    /\ script = "build_tistory_catalog"
    /\ pc = "load"
    /\ \E fn \in unvisited :
         LET raw == catalog[fn]
             e == raw.data
             loaded == [ e EXCEPT !._src_fn = fn,
                                  !._slug = slugify(Or(e.name_en, Or(e.name, e.name_ko))) ]
         IN  /\ visited' = visited \cup { fn }
             /\ IF ~endswith(lower(fn), yaml) \/ raw.kind # "mapping" \/ ~is_korean(e, fn)
                THEN UNCHANGED << all_loaded, ko_entries >>
                ELSE /\ all_loaded' = Append(all_loaded, loaded)
                     /\ ko_entries' = Append(ko_entries, Len(all_loaded) + 1)
    /\ UNCHANGED << wb, seen, today_iso, call, atlas, previous, script, catalog, pc, en_entries, url_to_en >>

InitLang ==
    InitRun({ "build_catalog", "build_catalog_5", "build_catalog_tistory_best",
              "build_catalog_github_moreinfo_patched", "build_catalog_tistory",
              "build_tistory_catalog" },
            LangCatalogs)

NextLang ==
    \/ Load
    \/ Load5
    \/ LoadTistoryBest
    \/ LoadMoreinfo
    \/ LoadTistory
    \/ SplitByLang
    \/ LoadTistoryCatalog

SpecLang == InitLang /\ [][NextLang]_vars

(***************************************************************************)
(* Catalogs with files that give no entry, and the loading loops that meet *)
(* them.                                                                   *)
(***************************************************************************)
SkipCatalogs ==
    LET SkipDocs ==
            { [ NoFields EXCEPT !.gpt_id = ID_A ],
              [ NoFields EXCEPT !.gpt_id = ID_A, !.language = FIELD_KO ] }
        SkipFiles ==
            { [ kind |-> k, data |-> d ] : k \in { "mapping", "wrapped" }, d \in SkipDocs }
            \cup { [ kind |-> k, data |-> NoFields ] :
                     k \in { "error", "list", "wrapped_list" } }
    IN  UNION { [ names -> SkipFiles ] :
                  names \in { s \in SUBSET FileNames : Cardinality(s) <= MaxFiles } }

\* build_catalogE1.patched.py: yaml.safe_load is not guarded and what it returns is
\* appended as it is; os.listdir is not sorted
LoadE1 ==
    /\ script = "build_catalogE1_patched"
    /\ pc = "load"
    /\ \E fn \in unvisited :
         LET raw == catalog[fn]
         IN  /\ visited' = visited \cup { fn }
             /\ IF ~(endswith(fn, yml) \/ endswith(fn, yaml))
                THEN UNCHANGED << all_loaded, pc >>
                ELSE IF raw.kind = "error"
                THEN pc' = "crashed" /\ UNCHANGED all_loaded
                ELSE /\ all_loaded' =
                          Append(all_loaded, IF raw.kind = "mapping" THEN raw.data ELSE NoFields)
                     /\ UNCHANGED pc
    /\ UNCHANGED << wb, seen, today_iso, call, atlas, previous, script, catalog, ko_entries, en_entries, url_to_en >>

InitSkip ==
    InitRun({ "build_catalog", "build_catalog_github_moreinfo_patched",
              "build_catalogE1_patched" },
            SkipCatalogs)

NextSkip ==
    \/ Load
    \/ LoadMoreinfo
    \/ SplitByLang
    \/ LoadE1

SpecSkip == InitSkip /\ [][NextSkip]_vars

(***************************************************************************)
(* The text utilities, called on every short text.                         *)
(***************************************************************************)
MaxLen == 3

\* a lower-case and an upper-case letter, a digit, the three characters an id may
\* hold besides, a blank, a punctuation mark and a Hangul syllable
\* TextChars; the texts of at most n of them
Texts(n) ==
    LET TextChars == { "a", "B", "1", "-", "_", ".", " ", "!", "U+B370" }
    IN  UNION { [ 1..k -> TextChars ] : k \in 0..n }

Call(op, value) ==
    /\ pc = "call"
    /\ call.op = "none"
    /\ call' = [ op |-> op, of |-> call.of, value |-> value ]
    /\ UNCHANGED << wb, seen, today_iso, script, catalog, visited, pc, all_loaded, ko_entries, en_entries,
                    url_to_en, atlas, previous >>

CallSlugify == Call("slugify", slugify(call.of))
CallSanitizeId == Call("sanitize_id", sanitize_id(call.of))
CallSanitizeIdPages == Call("sanitize_id_pages", sanitize_id_pages(call.of))
CallIsProbablyEnglishName ==
    Call("is_probably_english_name", is_probably_english_name(call.of))

\* slugify called on a slug that slugify returned
CallSlugifyAgain ==
    /\ pc = "call"
    /\ call.op = "slugify"
    /\ call' = [ op |-> "slugify_again", of |-> call.value, value |-> slugify(call.value) ]
    /\ UNCHANGED << wb, seen, today_iso, script, catalog, visited, pc, all_loaded, ko_entries, en_entries,
                    url_to_en, atlas, previous >>

InitText ==
    /\ script = "utilities"
    /\ catalog = << >>
    /\ visited = { }
    /\ pc = "call"
    /\ all_loaded = << >>
    /\ ko_entries = << >>
    /\ en_entries = << >>
    /\ url_to_en = << >>
    /\ atlas = NotWritten
    /\ previous = << >>
    /\ call \in { [ op |-> "none", of |-> t, value |-> << >> ] : t \in Texts(MaxLen) }
    /\ wb = NoWorkbook
    /\ seen = { }
    /\ today_iso = str(1)

NextText ==
    \/ CallSlugify
    \/ CallSlugifyAgain
    \/ CallSanitizeId
    \/ CallSanitizeIdPages
    \/ CallIsProbablyEnglishName

SpecText == InitText /\ [][NextText]_vars

(***************************************************************************)
(* What the properties below speak about.                                  *)
(***************************************************************************)
Handles == DOMAIN all_loaded
InList(list, h) == \E k \in DOMAIN list : list[k] = h

\* the file an entry was loaded from, and the entry as the file gave it
SourceName(h) ==
    IF all_loaded[h]._src_fn # << >> THEN all_loaded[h]._src_fn
    ELSE CHOOSE fn \in DOMAIN catalog : TRUE
Source(h) == catalog[SourceName(h)].data

\* the segments of a file name: its stem cut at every "_" and "-"
RECURSIVE cut(_, _)
cut(s, cs) ==
    IF \A i \in DOMAIN s : s[i] \notin cs THEN << s >>
    ELSE LET i == CHOOSE j \in DOMAIN s : s[j] \in cs /\ \A k \in 1..(j - 1) : s[k] \notin cs
         IN  << SubSeq(s, 1, i - 1) >> \o cut(SubSeq(s, i + 1, Len(s)), cs)
NameSegments(fn) == cut(strip_yaml_ext(lower(fn)), { "_", "-" })
\* a segment after a "_" or "-" that is one of toks
HasDelimited(fn, toks) == \E k \in 2..Len(NameSegments(fn)) : NameSegments(fn)[k] \in toks
\* a segment at any place that is one of toks
HasSegment(fn, toks) == \E k \in DOMAIN NameSegments(fn) : NameSegments(fn)[k] \in toks

\* the ids of a language list have been assigned
IdsAssigned(l) == IF l = "ko" THEN pc # "load" ELSE pc \notin { "load", "ids_en" }

(***************************************************************************)
(* C1: after id assignment no two entries of one language partition carry  *)
(* the same id, also when a suffixed id such as a-2 is another entry's own *)
(* base id.                                                                *)
(***************************************************************************)
C1_IdsUniqueInPartition ==
    \A g, h \in Handles :
        ( /\ g # h
          /\ all_loaded[g]._lang = all_loaded[h]._lang
          /\ IdsAssigned(all_loaded[h]._lang) )
        => all_loaded[g]._id # all_loaded[h]._id

(***************************************************************************)
(* C2: a loaded entry keeps the language it got when it was loaded and is  *)
(* in exactly one of the two language lists, the one of that language,     *)
(* from the moment the script fills the lists until the end of the run.    *)
(***************************************************************************)
LangAtLoad(h) ==
    IF script = "build_catalog_5" THEN guess_lang_5(Source(h), SourceName(h))
    ELSE guess_lang(Source(h), SourceName(h))
ListsFilled == script = "build_catalog" \/ pc \in { "sort", "render" }

C2_OneLanguageOnePartition ==
    \A h \in Handles :
        /\ all_loaded[h]._lang = LangAtLoad(h)
        /\ ListsFilled =>
             /\ InList(ko_entries, h) <=> all_loaded[h]._lang = "ko"
             /\ InList(en_entries, h) <=> all_loaded[h]._lang # "ko"

(***************************************************************************)
(* C3: the file name token decides the language whatever the language      *)
(* field says.  As claimed: a name with a delimited `en` segment is `en`   *)
(* and a name with a delimited `ko`, `kr` or `kor` segment is `ko`.        *)
(* As amended: the same, for a name that has no segment of the other       *)
(* language's vocabulary.                                                  *)
(***************************************************************************)
TokenScripts == { "build_catalog", "build_catalog_tistory_best" }

DefaultScripts == { "build_catalog", "build_catalog_github_moreinfo_patched" }

C4_DefaultsToEnglish ==
    script \in DefaultScripts =>
        \A h \in Handles :
            ( /\ ~HasSegment(SourceName(h), LANG_EN \cup LANG_KO)
              /\ lang_field(Source(h)) \notin LANG_EN \cup LANG_KO )
            => /\ all_loaded[h]._lang = "en"
               /\ ( script = "build_catalog" \/ pc = "render" )
                    => InList(ko_entries, h) \/ InList(en_entries, h)

(***************************************************************************)
(* C5: the language does not depend on the name fields: an entry gets the  *)
(* language that the same entry without its names gets under the same file *)
(* name, and build_tistory_catalog.py lists it under the same condition.   *)
(***************************************************************************)
WithoutNames(e) == [ e EXCEPT !.name = << >>, !.name_en = << >>, !.name_ko = << >> ]

C5_NoContentSniffing ==
    /\ script = "build_catalog" =>
         \A h \in Handles :
             all_loaded[h]._lang = guess_lang(WithoutNames(Source(h)), SourceName(h))
    /\ script = "build_catalog_5" =>
         \A h \in Handles :
             all_loaded[h]._lang = guess_lang_5(WithoutNames(Source(h)), SourceName(h))
    /\ script = "build_tistory_catalog" =>
         \A h \in Handles : is_korean(WithoutNames(Source(h)), SourceName(h))

(***************************************************************************)
(* C6: a language token that is only part of a longer segment of the file  *)
(* name decides nothing: when no segment is a language token, the language *)
(* is the one the language field gives, `en` without such a field.         *)
(***************************************************************************)
SegmentScripts == { "build_catalog", "build_catalog_tistory" }

C6_NoSubstringMatch ==
    script \in SegmentScripts =>
        \A h \in Handles :
            ~HasSegment(SourceName(h), LANG_EN \cup LANG_KO)
            => all_loaded[h]._lang =
                 IF lang_field(Source(h)) \in LANG_KO THEN "ko" ELSE "en"

(***************************************************************************)
(* C7: the entries are loaded in sorted file-name order, and in that order *)
(* the first entry of a language that resolves to a base id keeps it and   *)
(* the k-th one (k >= 2) gets <base>-k; the later sort by display name     *)
(* changes no id.                                                          *)
(***************************************************************************)
\* the base id of an entry as loaded, and its rank among the entries of its language
BaseOf(h) == base_id([ Source(h) EXCEPT !._src_fn = SourceName(h) ])
RankOf(h) ==
    Cardinality({ g \in 1..h : /\ all_loaded[g]._lang = all_loaded[h]._lang
                               /\ BaseOf(g) = BaseOf(h) })

C7_SuffixByEncounterOrder ==
    /\ \A g, h \in Handles : g < h => StrLess(SourceName(g), SourceName(h))
    /\ \A h \in Handles :
         IdsAssigned(all_loaded[h]._lang) =>
             all_loaded[h]._id =
                 IF RankOf(h) = 1 THEN BaseOf(h)
                 ELSE BaseOf(h) \o << "-" >> \o str(RankOf(h))

\* the run has sorted a list into another order than the load order, and an entry of
\* that list carries a suffixed id
C7_Witness ==
    /\ pc = "render"
    /\ \E i, j \in DOMAIN en_entries :
         /\ i < j
         /\ en_entries[i] > en_entries[j]
         /\ RankOf(en_entries[i]) = 2
         /\ all_loaded[en_entries[i]]._id = BaseOf(en_entries[i]) \o << "-", "2" >>

(***************************************************************************)
(* C8: collisions are resolved inside a language partition only: an entry  *)
(* that is the first of its language to resolve to a base id keeps the     *)
(* unsuffixed base id, whatever the entries of the other language are.     *)
(***************************************************************************)
IdsResolved ==
    IF script = "build_catalog_5" THEN pc # "load" ELSE pc \notin { "load", "ids_en" }

C8_OtherPartitionIgnored ==
    IdsResolved =>
        \A h \in Handles :
            ( \A g \in 1..(h - 1) :
                  all_loaded[g]._lang = all_loaded[h]._lang => BaseOf(g) # BaseOf(h) )
            => all_loaded[h]._id = BaseOf(h)

(***************************************************************************)
(* C9: the restoration pass sets name_en to the indexed name on exactly    *)
(* the entries that have a url of the index and a name_en that is not      *)
(* probably English; it changes no other entry, no other field and neither *)
(* list, and after it every entry with a url of the index has a probably   *)
(* English name_en.                                                        *)
(***************************************************************************)
NeedsRestore(e) ==
    /\ strip(e.url, Whitespace) # << >>
    /\ ~is_probably_english_name(strip(e.name_en, Whitespace))
    /\ strip(e.url, Whitespace) \in DOMAIN url_to_en

C9_RestoreFrame ==
    [][ pc = "restore" =>
          /\ DOMAIN all_loaded' = DOMAIN all_loaded
          /\ << ko_entries', en_entries', url_to_en' >> = << ko_entries, en_entries, url_to_en >>
          /\ \A h \in Handles :
               /\ all_loaded'[h] =
                    IF NeedsRestore(all_loaded[h])
                    THEN [ all_loaded[h] EXCEPT
                             !.name_en = url_to_en[strip(all_loaded[h].url, Whitespace)] ]
                    ELSE all_loaded[h]
               /\ NeedsRestore(all_loaded[h]) => all_loaded'[h].name_en # all_loaded[h].name_en
               /\ strip(all_loaded[h].url, Whitespace) \in DOMAIN url_to_en
                    => is_probably_english_name(all_loaded'[h].name_en)
    ]_vars

\* the pass has run and has replaced a Korean name_en while the entry that supplied
\* the name, and an entry whose English name differs from the indexed one, kept theirs
C9_Witness ==
    /\ pc = "synth"
    /\ \E g, h, k \in Handles :
         /\ Source(h).name_en = NAME_HANGUL
         /\ all_loaded[h].name_en = NAME_DESK
         /\ Source(h).name_ko = NAME_HANGUL
         /\ all_loaded[h].name_ko = NAME_HANGUL
         /\ g < h
         /\ all_loaded[g].name_en = NAME_DESK
         /\ all_loaded[k].url = URL_1
         /\ all_loaded[k].name_en = NAME_DATA

(***************************************************************************)
(* C10: the url index is first-wins over all loaded entries of both        *)
(* languages in load order: a url is in the index exactly if some entry    *)
(* has it (non-empty) with a probably English name_en, and the index holds *)
(* the name_en of the first such entry.                                    *)
(***************************************************************************)
\* the entries, as loaded, that can supply the canonical name of url u
Suppliers(u) ==
    { h \in Handles : /\ strip(Source(h).url, Whitespace) = u
                      /\ is_probably_english_name(strip(Source(h).name_en, Whitespace)) }

C10_IndexFirstWins ==
    pc \in { "restore", "synth", "sort", "render" } =>
        /\ DOMAIN url_to_en =
             { u \in { strip(Source(h).url, Whitespace) : h \in Handles } :
                 u # << >> /\ Suppliers(u) # { } }
        /\ \A u \in DOMAIN url_to_en :
             \E h \in Suppliers(u) :
                 /\ \A g \in Suppliers(u) : h <= g
                 /\ url_to_en[u] = strip(Source(h).name_en, Whitespace)

\* the index holds the name of a Korean-list entry although a later English-list
\* entry has the same url and another English name
C10_Witness ==
    /\ pc = "restore"
    /\ \E g, h \in Handles :
         /\ g < h
         /\ InList(ko_entries, g)
         /\ InList(en_entries, h)
         /\ all_loaded[g].url = URL_1
         /\ all_loaded[h].url = URL_1
         /\ all_loaded[g].name_en = NAME_DESK
         /\ all_loaded[h].name_en = NAME_DATA
         /\ url_to_en[URL_1] = NAME_DESK

(***************************************************************************)
(* C11: restoration runs before synthesis: an entry that came without a    *)
(* name_ko and whose name_en was restored from the index gets the name_ko  *)
(* synthesized from the restored name_en, not from the name_en it had      *)
(* before.                                                                 *)
(***************************************************************************)
\* the entry came without name_ko and its name_en is one the restoration replaces
RestoredWithoutKo(h) ==
    /\ Source(h).name_ko = << >>
    /\ strip(Source(h).url, Whitespace) \in DOMAIN url_to_en
    /\ ~is_probably_english_name(strip(Source(h).name_en, Whitespace))

C11_SynthesisFromRestoredName ==
    pc \in { "sort", "render" } =>
        \A h \in Handles :
            RestoredWithoutKo(h) =>
                /\ all_loaded[h].name_en = url_to_en[strip(Source(h).url, Whitespace)]
                /\ all_loaded[h].name_ko = auto_translate_name_ko(all_loaded[h].name_en)
                /\ all_loaded[h].name_ko_policy = auto

\* a Hangul name_en was restored to "Data Desk" and the synthesized name_ko is the
\* translation of "Data Desk", which differs from what the Hangul name would have given
C11_Witness ==
    /\ pc = "sort"
    /\ \E h \in Handles :
         /\ RestoredWithoutKo(h)
         /\ Source(h).name_en = NAME_HANGUL
         /\ all_loaded[h].name_en = NAME_DATA
         /\ all_loaded[h].name_ko = auto_translate_name_ko(NAME_DATA)
         /\ all_loaded[h].name_ko # auto_translate_name_ko(NAME_HANGUL)

(***************************************************************************)
(* C12: after the name passes every entry has the policy of its Korean     *)
(* name: `human` when its file supplied the name_ko, `auto` when the name  *)
(* was synthesized, and no policy when it has no name_ko.                  *)
(***************************************************************************)
C12_PolicyFollowsProvenance ==
    pc \in { "sort", "render" } =>
        \A h \in Handles :
            all_loaded[h].name_ko_policy =
                IF Source(h).name_ko # << >> THEN human
                ELSE IF all_loaded[h].name_ko # << >> THEN auto
                ELSE << >>

(***************************************************************************)
(* C13: the synthesis pass leaves the name_ko of an entry that has one and *)
(* keeps the policy the entry declares, setting `human` only when it       *)
(* declares none; it sets name_ko and the policy `auto` only on an entry   *)
(* that had no name_ko and for which the translation is not empty; it      *)
(* changes nothing else.                                                   *)
(***************************************************************************)
C13_SynthesisFrame ==
    [][ pc = "synth" =>
          /\ DOMAIN all_loaded' = DOMAIN all_loaded
          /\ \A h \in Handles :
               LET e == all_loaded[h]
                   e2 == all_loaded'[h]
                   ko == auto_translate_name_ko(Or(e.name_en, e.name))
               IN  /\ e.name_ko # << >> =>
                         /\ e2.name_ko = e.name_ko
                         /\ e2.name_ko_policy =
                              IF e.name_ko_policy # << >> THEN e.name_ko_policy ELSE human
                   /\ ( e2.name_ko # e.name_ko \/ e2.name_ko_policy # e.name_ko_policy ) =>
                         \/ e.name_ko # << >> /\ e.name_ko_policy = << >>
                         \/ /\ e.name_ko = << >>
                            /\ ko # << >>
                            /\ e2.name_ko = ko
                            /\ e2.name_ko_policy = auto
                   /\ e2 = [ e EXCEPT !.name_ko = e2.name_ko,
                                      !.name_ko_policy = e2.name_ko_policy ]
    ]_vars

\* the pass has run over an entry that kept its name_ko and its declared policy
\* `auto`, one that got `human` for its undeclared policy, and one whose name_ko
\* was synthesized
C13_Witness ==
    /\ pc = "sort"
    /\ \E f, g, h \in Handles :
         /\ Source(f).name_ko = NAME_HANGUL
         /\ Source(f).name_ko_policy = auto
         /\ all_loaded[f].name_ko = NAME_HANGUL
         /\ all_loaded[f].name_ko_policy = auto
         /\ Source(g).name_ko = NAME_HANGUL
         /\ Source(g).name_ko_policy = << >>
         /\ all_loaded[g].name_ko_policy = human
         /\ Source(h).name_ko = << >>
         /\ Source(h).name_en = NAME_DESK
         /\ all_loaded[h].name_ko = auto_translate_name_ko(NAME_DESK)
         /\ all_loaded[h].name_ko_policy = auto

BadFile(raw) == raw.kind \in { "error", "list", "wrapped_list" }
GoodVisited == { fn \in visited : ~BadFile(catalog[fn]) }

C15_BadFilesSkipped ==
    /\ pc # "crashed"
    /\ Len(all_loaded) = Cardinality(GoodVisited)
    /\ script = "build_catalog" =>
         [ h \in DOMAIN all_loaded |-> all_loaded[h]._src_fn ] = sorted(GoodVisited)

(***************************************************************************)
(* C16: every item of the atlas comes from an entry whose source file      *)
(* supplied a gpt_id, an English name and a url, none of them empty.       *)
(***************************************************************************)
C16_AtlasItemsHaveTriple ==
    atlas.written =>
        \A k \in DOMAIN atlas.items :
            \E h \in Handles :
                /\ Source(h).gpt_id # << >>
                /\ Source(h).gpt_id = atlas.items[k].gpt_id
                /\ Source(h).name_en # << >>
                /\ Source(h).url # << >>
                /\ Source(h).url = atlas.items[k].url

(***************************************************************************)
(* C17: the id of an entry is made from its gpt_id when it has one, and    *)
(* otherwise from the slug of the first it has of name_en, name, name_ko   *)
(* and the name of its file; every file that holds a mapping gives an      *)
(* entry, also one with no name and no gpt_id, whose id then comes from    *)
(* the file name.                                                          *)
(***************************************************************************)
FirstNonEmpty(vals) ==
    IF \A i \in DOMAIN vals : vals[i] = << >> THEN << >>
    ELSE vals[CHOOSE i \in DOMAIN vals :
                  vals[i] # << >> /\ \A j \in 1..(i - 1) : vals[j] = << >>]
Candidate(h) ==
    IF Source(h).gpt_id # << >> THEN Source(h).gpt_id
    ELSE slugify(FirstNonEmpty(<< Source(h).name_en, Source(h).name, Source(h).name_ko,
                                  SourceName(h) >>))

C17_IdCandidatePriority ==
    /\ \A fn \in visited :
         catalog[fn].kind = "mapping" => \E h \in Handles : all_loaded[h]._src_fn = fn
    /\ \A h \in Handles :
         IdsAssigned(all_loaded[h]._lang) =>
             \/ all_loaded[h]._id = sanitize_id(Candidate(h))
             \/ \E k \in 2..Len(all_loaded) :
                  all_loaded[h]._id = sanitize_id(Candidate(h)) \o << "-" >> \o str(k)

\* ids were given to an entry with a gpt_id and names, one with name_en, name and
\* name_ko, and one with nothing but its file name
C17_Witness ==
    /\ pc = "index"
    /\ \E f, g, h \in Handles :
         /\ Source(f).gpt_id = ID_A
         /\ Source(f).name_en = NAME_A
         /\ all_loaded[f]._id = ID_A
         /\ Source(g).gpt_id = << >>
         /\ Source(g).name_en = << >>
         /\ Source(g).name = NAME_DESK
         /\ Source(g).name_ko = NAME_HANGUL
         /\ all_loaded[g]._id = lower(NAME_DESK)
         /\ Source(h) = NoFields
         /\ all_loaded[h]._id = slugify(SourceName(h))

(***************************************************************************)
(* C18: sanitize_id returns a text that matches the safe-identifier        *)
(* pattern as it is, upper case kept, and the slug of any other text; what *)
(* it returns matches the safe-identifier pattern.                         *)
(***************************************************************************)
C18_SanitizeIdKeepsSafeIds ==
    call.op \in { "sanitize_id", "sanitize_id_pages" } =>
        /\ call.value = IF SAFE_ID_RE_match(call.of) THEN call.of ELSE slugify(call.of)
        /\ SAFE_ID_RE_match(call.value)

(***************************************************************************)
(* C19: slugify gives the runs of letters and digits of the lower-cased    *)
(* text joined by single "-", and `item` when there is none; so the slug   *)
(* is not empty, holds only a-z, 0-9 and "-", neither begins nor ends with *)
(* "-" nor has "--", and is its own slug.                                  *)
(***************************************************************************)
\* the maximal runs of letters and digits of a text
AlnumRuns(s) == SelectSeq(cut(s, Char \ SlugChar), LAMBDA t : t # << >>)

C19_SlugifyRule ==
    /\ call.op \in { "slugify", "slugify_again" } =>
         /\ call.value = IF AlnumRuns(lower(call.of)) = << >> THEN item
                         ELSE join(<< "-" >>, AlnumRuns(lower(call.of)))
         /\ call.value # << >>
         /\ \A i \in DOMAIN call.value : call.value[i] \in SlugChar \cup { "-" }
         /\ call.value[1] # "-"
         /\ call.value[Len(call.value)] # "-"
         /\ \A i \in 1..(Len(call.value) - 1) : call.value[i] = "-" => call.value[i + 1] # "-"
    /\ call.op = "slugify_again" => call.value = call.of

\* the slug b-a, which slugify returned, was slugified again and came back as it was
C19_Witness ==
    /\ call.op = "slugify_again"
    /\ call.of = << "b", "-", "a" >>
    /\ call.value = call.of

(***************************************************************************)
(* C20: is_probably_english_name is false for a name that holds a Hangul   *)
(* syllable, also beside ASCII letters, true for a name without Hangul     *)
(* that holds an ASCII letter, and false for any other name.               *)
(***************************************************************************)
HasHangul(s) == \E i \in DOMAIN s : s[i] \in Hangul
HasAsciiLetter(s) == \E i \in DOMAIN s : s[i] \in Upper \cup Lower

C20_ProbablyEnglish ==
    call.op = "is_probably_english_name" =>
        call.value = IF HasHangul(call.of) THEN FALSE
                     ELSE IF HasAsciiLetter(call.of) THEN TRUE
                     ELSE FALSE

\* a name with an ASCII letter and a Hangul syllable was found not English
C20_Witness ==
    /\ call.op = "is_probably_english_name"
    /\ HasHangul(call.of)
    /\ HasAsciiLetter(call.of)
    /\ call.value = FALSE

(***************************************************************************)
(* C21: the file name rule knows the whole vocabulary at every place of    *)
(* the name: a name with a segment `en`, `eng` or `english` (and none of   *)
(* the Korean vocabulary) is `en`, and a name with a segment `ko`, `kr`,   *)
(* `kor` or `korean` (and none of the English vocabulary) is `ko`,         *)
(* whatever the language field says.                                       *)
(***************************************************************************)
VocabularyScripts == { "build_catalog", "build_catalog_github_moreinfo_patched" }

C21_WholeVocabularyEveryPlace ==
    script \in VocabularyScripts =>
        \A h \in Handles :
            /\ ( HasSegment(SourceName(h), LANG_EN) /\ ~HasSegment(SourceName(h), LANG_KO) )
               => all_loaded[h]._lang = "en"
            /\ ( HasSegment(SourceName(h), LANG_KO) /\ ~HasSegment(SourceName(h), LANG_EN) )
               => all_loaded[h]._lang = "ko"

(***************************************************************************)
(* C22: build_catalog.py takes an entry out of one wrapper at most: a file *)
(* whose root has the wrapper key with a mapping under it gives that       *)
(* mapping as its entry, and a file whose root has the wrapper key with a  *)
(* value that is no mapping gives no entry, the root mapping itself being  *)
(* never taken as the entry.                                               *)
(***************************************************************************)
C22_WrapperValueMustBeMapping ==
    script = "build_catalog" =>
        \A h \in Handles :
            LET raw == catalog[all_loaded[h]._src_fn]
            IN  /\ raw.kind # "wrapped_list"
                /\ raw.kind = "wrapped" =>
                     [ all_loaded[h] EXCEPT !._src_fn = << >>, !._lang = << >> ] = raw.data

(***************************************************************************)
(* auto_translate_name_ko, called on every name of a few words.            *)
(***************************************************************************)
MaxWords == 3

RECURSIVE interleave(_, _)
interleave(ws, ss) ==
    IF ws = << >> THEN << >>
    ELSE Head(ws) \o Head(ss) \o interleave(Tail(ws), Tail(ss))

\* the names of at most MaxWords words. The words: a dictionary word in two spellings,
\* an all-capitals spelling of another, a word the dictionary has with a capital, a
\* word and an abbreviation it does not have. After a word: nothing, a blank, one
\* separator, a run of two. Before the first word: nothing or a separator.
Names ==
    LET NameWords ==
            { << "q", "a" >>, << "Q", "a" >>, << "P", "R", "O" >>,
              << "D", "e", "s", "k" >>, << "x" >>, << "A", "1" >> }
        NameSeps == { << >>, << " " >>, << "/" >>, << "-", "_" >> }
        NameHeads == { << >>, << "_" >> }
    IN  UNION { { h \o interleave(ws, ss) :
                    h \in NameHeads, ws \in [ 1..k -> NameWords ], ss \in [ 1..k -> NameSeps ] } :
                k \in 0..MaxWords }

CallAutoTranslateNameKo ==
    Call("auto_translate_name_ko", auto_translate_name_ko(call.of))

InitName ==
    /\ script = "utilities"
    /\ catalog = << >>
    /\ visited = { }
    /\ pc = "call"
    /\ all_loaded = << >>
    /\ ko_entries = << >>
    /\ en_entries = << >>
    /\ url_to_en = << >>
    /\ atlas = NotWritten
    /\ previous = << >>
    /\ call \in { [ op |-> "none", of |-> t, value |-> << >> ] : t \in Names }
    /\ wb = NoWorkbook
    /\ seen = { }
    /\ today_iso = str(1)

NextName == CallAutoTranslateNameKo

SpecName == InitName /\ [][NextName]_vars

(***************************************************************************)
(* C23: the Korean name made from an English name has one token for each   *)
(* token of the English name (its runs of characters between blanks and    *)
(* the separators "-", "_", "/"), in the same order and set apart by one   *)
(* blank: a token whose lower-case form is in the dictionary is replaced   *)
(* by the dictionary's word, any other token is kept, and a token of two   *)
(* or more capitals and digits is kept even when its lower-case form is in *)
(* the dictionary.                                                         *)
(***************************************************************************)
NameTokens(s) == SelectSeq(cut(s, { "-", "_", "/", " " }), LAMBDA t : t # << >>)
InDictionary(t) == \E i \in DOMAIN mapping : mapping[i][1] = lower(t)
DictionaryWord(t) == mapping[CHOOSE i \in DOMAIN mapping : mapping[i][1] = lower(t)][2]
CapitalsAndDigits(t) == Len(t) >= 2 /\ \A i \in DOMAIN t : t[i] \in Upper \cup Digit

C23_TokenByToken ==
    call.op = "auto_translate_name_ko" =>
        LET toks == NameTokens(call.of)
            out == split(call.value, " ")
        IN  IF toks = << >> THEN call.value = << >>
            ELSE /\ Len(out) = Len(toks)
                 /\ \A i \in DOMAIN toks :
                      out[i] = IF CapitalsAndDigits(toks[i]) THEN toks[i]
                               ELSE IF InDictionary(toks[i]) THEN DictionaryWord(toks[i])
                               ELSE toks[i]

\* "PRO-_Qa x" came back as "PRO QA x": the capitals kept, the dictionary word
\* replaced, the unknown word kept
C23_Witness ==
    /\ call.op = "auto_translate_name_ko"
    /\ call.of = << "P", "R", "O", "-", "_", "Q", "a", " ", "x" >>
    /\ call.value = << "P", "R", "O", " ", "Q", "A", " ", "x" >>

(***************************************************************************)
(* C24: no two items of one atlas carry the same gpt_id, in the atlas of   *)
(* both languages, in the Korean one and in the English one, also when a   *)
(* Korean and an English file have the same gpt_id.                        *)
(***************************************************************************)
DistinctGptIds(items) ==
    \A j, k \in DOMAIN items : items[j].gpt_id = items[k].gpt_id => j = k

C24_AtlasGptIdsUnique ==
    atlas.written =>
        /\ DistinctGptIds(atlas.items)
        /\ DistinctGptIds(write_atlas_yaml(all_loaded, ko_entries))
        /\ DistinctGptIds(write_atlas_yaml(all_loaded, en_entries))

(***************************************************************************)
(* build_tistory_catalogE1.py, run on the catalog directory after          *)
(* build_catalog.py has written its pages.                                 *)
(***************************************************************************)
\* re.search(r"(^|[_\-.])(en)([_\-.]|$)", fn), then the same for ko|kr|kor; no field
\* is read
guess_lang_E1(entry, filename) ==
    LET fn == lower(filename)
        seps == { "_", "-", "." }
        found(toks) ==
            \E t \in toks : \E i \in DOMAIN fn :
                /\ MatchAt(fn, i, t)
                /\ i = 1 \/ fn[i - 1] \in seps
                /\ i + Len(t) > Len(fn) \/ fn[i + Len(t)] \in seps
    IN  IF found(EN_TOKENS) THEN "en" ELSE IF found(KO_TOKENS) THEN "ko" ELSE "en"

\* build_catalog.py has ended; the module body of build_tistory_catalogE1.py begins
StartE1 ==
    /\ script = "build_catalog"
    /\ pc = "render"
    /\ atlas.written
    /\ previous = << >>
    /\ previous' = << all_loaded, ko_entries, en_entries, atlas.items >>
    /\ script' = "build_tistory_catalogE1"
    /\ visited' = { }
    /\ pc' = "load"
    /\ all_loaded' = << >>
    /\ ko_entries' = << >>
    /\ en_entries' = << >>
    /\ url_to_en' = << >>
    /\ UNCHANGED << wb, seen, today_iso, call, atlas, catalog >>

\* one iteration of the loading loop: the entry gets its _lang and its _id at once
LoadTistoryCatalogE1 ==
    /\ script = "build_tistory_catalogE1"
    /\ pc = "load"
    /\ unvisited # { }
    /\ LET fn == next_sorted
           raw == catalog[fn]
           entry == normalize_entry(raw)
           base == Or(entry.name_en, Or(entry.name, Or(entry.name_ko, fn)))
           raw_id == IF entry.gpt_id # << >> THEN entry.gpt_id ELSE slugify(base)
           loaded == [ entry EXCEPT !._src_fn = fn, !._lang = guess_lang_E1(entry, fn),
                                    !._id = sanitize_id(raw_id) ]
       IN  /\ visited' = visited \cup { fn }
           /\ all_loaded' = IF ~IsYamlName(fn) \/ raw.kind = "error" \/ entry = EMPTY_DICT
                            THEN all_loaded
                            ELSE Append(all_loaded, loaded)
    /\ UNCHANGED << wb, seen, today_iso, call, atlas, previous, script, catalog, pc, ko_entries, en_entries,
                    url_to_en >>

\* the suffixing loop over all entries, then the split by language
SplitE1 ==
    /\ script = "build_tistory_catalogE1"
    /\ pc = "load"
    /\ unvisited = { }
    /\ LET suffixed_all == resolve_collisions(all_loaded, [ h \in DOMAIN all_loaded |-> h ],
                                              1, << >>)
       IN  /\ all_loaded' = suffixed_all
           /\ ko_entries' = select_lang(suffixed_all, "ko")
           /\ en_entries' = select_lang(suffixed_all, "en")
    /\ pc' = "render"
    /\ UNCHANGED << wb, seen, today_iso, call, atlas, previous, script, catalog, visited, url_to_en >>

InitLinks == InitRun({ "build_catalog" }, Catalogs(AtlasDocs))

NextLinks ==
    \/ Load
    \/ AssignIdsKo
    \/ AssignIdsEn
    \/ BuildUrlToEn
    \/ RestoreNameEn
    \/ EnsureNameKo
    \/ SortLists
    \/ WriteAtlas
    \/ StartE1
    \/ LoadTistoryCatalogE1
    \/ SplitE1

SpecLinks == InitLinks /\ [][NextLinks]_vars

(***************************************************************************)
(* C25: build_tistory_catalogE1.py gives every entry the language and the  *)
(* id that build_catalog.py gave the entry of the same file, so that the   *)
(* detail link of the entry names a page build_catalog.py has written.     *)
(***************************************************************************)
BuilderEntries == previous[1]

C25_SameLanguageAndId ==
    ( script = "build_tistory_catalogE1" /\ pc = "render" ) =>
        \A h \in Handles :
            \E g \in DOMAIN BuilderEntries :
                /\ BuilderEntries[g]._src_fn = all_loaded[h]._src_fn
                /\ BuilderEntries[g]._lang = all_loaded[h]._lang
                /\ BuilderEntries[g]._id = all_loaded[h]._id

(***************************************************************************)
(* The index builders: build_gpt_index_master_override_from_catalog.py and *)
(* catalog/build_gpt_index_incremental_from_catalog.py. A row is a         *)
(* function from the headers of its sheet to the text of its cells, an     *)
(* empty cell being the empty text; a header name is one symbol of the     *)
(* text of the changed_fields cell.                                        *)
(***************************************************************************)
MaxDays == 2

\* norm_str of the fields the snapshot is made of; the entries carry no version, ver,
\* last_updated or updated
catalog_snapshot_from_entry(e) ==
    [ name_ko__catalog |-> strip(Or(e.name_ko, e.name), Whitespace),
      name_en__catalog |-> strip(Or(e.name_en, e.name), Whitespace),
      url__catalog |-> strip(e.url, Whitespace),
      version__catalog |-> << >>,
      last_updated__catalog |-> << >> ]

\* update_row that seeds the manual columns at every call
update_row_seed_always(row, snap, today, is_new) ==
    LET CATALOG_FIELDS ==
            << "name_ko__catalog", "name_en__catalog", "url__catalog", "version__catalog",
               "last_updated__catalog" >>
        set_cell(r, key, value) == IF key \in DOMAIN r THEN [ r EXCEPT ![key] = value ] ELSE r
        get_cell(r, key) == IF key \in DOMAIN r THEN strip(r[key], Whitespace) ELSE << >>
        seeded ==
            set_cell(set_cell(set_cell(set_cell(row,
                "display_name_ko", snap.name_ko__catalog),
                "display_name_en", snap.name_en__catalog),
                "visibility", << "p", "u", "b", "l", "i", "c" >>),
                "show_url", << "s", "h", "o", "w", "_", "u", "r", "l" >>)
        changed_fields ==
            SelectSeq(CATALOG_FIELDS,
                      LAMBDA f : get_cell(seeded, f) # strip(snap[f], Whitespace))
        refreshed == [ h \in DOMAIN seeded |-> IF h \in DOMAIN snap THEN snap[h] ELSE seeded[h] ]
        stamped == set_cell(set_cell(refreshed, "present_in_catalog", << "Y" >>),
                            "last_seen", today)
    IN  IF changed_fields # << >>
        THEN set_cell(set_cell(stamped, "changed", << "Y" >>),
                      "changed_fields",
                      join(<< "," >>, [ i \in DOMAIN changed_fields |-> << changed_fields[i] >> ]))
        ELSE stamped

\* update_row that writes the change mark at every call: N and no field when no
\* field differs
update_row_mark_always(row, snap, today, is_new) ==
    LET CATALOG_FIELDS ==
            << "name_ko__catalog", "name_en__catalog", "url__catalog", "version__catalog",
               "last_updated__catalog" >>
        set_cell(r, key, value) == IF key \in DOMAIN r THEN [ r EXCEPT ![key] = value ] ELSE r
        get_cell(r, key) == IF key \in DOMAIN r THEN strip(r[key], Whitespace) ELSE << >>
        seeded ==
            IF is_new
            THEN set_cell(set_cell(set_cell(set_cell(row,
                     "display_name_ko", snap.name_ko__catalog),
                     "display_name_en", snap.name_en__catalog),
                     "visibility", << "p", "u", "b", "l", "i", "c" >>),
                     "show_url", << "s", "h", "o", "w", "_", "u", "r", "l" >>)
            ELSE row
        changed_fields ==
            SelectSeq(CATALOG_FIELDS,
                      LAMBDA f : get_cell(seeded, f) # strip(snap[f], Whitespace))
        refreshed == [ h \in DOMAIN seeded |-> IF h \in DOMAIN snap THEN snap[h] ELSE seeded[h] ]
        stamped == set_cell(set_cell(refreshed, "present_in_catalog", << "Y" >>),
                            "last_seen", today)
    IN  set_cell(set_cell(stamped, "changed",
                          IF changed_fields # << >> THEN << "Y" >> ELSE << "N" >>),
                 "changed_fields",
                 join(<< "," >>, [ i \in DOMAIN changed_fields |-> << changed_fields[i] >> ]))

update_row(row, snap, today, is_new) ==
    LET CATALOG_FIELDS ==
            << "name_ko__catalog", "name_en__catalog", "url__catalog", "version__catalog",
               "last_updated__catalog" >>
        DEFAULT_VISIBILITY == << "p", "u", "b", "l", "i", "c" >>
        DEFAULT_SHOW_URL == << "s", "h", "o", "w", "_", "u", "r", "l" >>
        set_cell(r, key, value) == IF key \in DOMAIN r THEN [ r EXCEPT ![key] = value ] ELSE r
        get_cell(r, key) == IF key \in DOMAIN r THEN strip(r[key], Whitespace) ELSE << >>
        \* 1) the manual columns of a new row get their seed
        seeded ==
            IF is_new
            THEN set_cell(set_cell(set_cell(set_cell(row,
                     "display_name_ko", snap.name_ko__catalog),
                     "display_name_en", snap.name_en__catalog),
                     "visibility", DEFAULT_VISIBILITY),
                     "show_url", DEFAULT_SHOW_URL)
            ELSE row
        \* 2) the fields whose cell differs from the new snapshot
        changed_fields ==
            SelectSeq(CATALOG_FIELDS,
                      LAMBDA f : get_cell(seeded, f) # strip(snap[f], Whitespace))
        \* 3) the snapshot columns are written
        refreshed == [ h \in DOMAIN seeded |-> IF h \in DOMAIN snap THEN snap[h] ELSE seeded[h] ]
        \* 4) the status columns
        stamped == set_cell(set_cell(refreshed, "present_in_catalog", << "Y" >>),
                            "last_seen", today)
    IN  IF changed_fields # << >>
        THEN set_cell(set_cell(stamped, "changed", << "Y" >>),
                      "changed_fields",
                      join(<< "," >>, [ i \in DOMAIN changed_fields |-> << changed_fields[i] >> ]))
        ELSE stamped

\* mark_missing that drops the rows of the ids not met
mark_missing_delete(rows, seen_ids) ==
    SelectSeq(rows, LAMBDA row : strip(row.gpt_id, Whitespace) \in seen_ids)

mark_missing(rows, seen_ids) ==
    [ r \in DOMAIN rows |->
        LET gid == strip(rows[r].gpt_id, Whitespace)
        IN  IF gid # << >> /\ gid \notin seen_ids
            THEN [ rows[r] EXCEPT !.present_in_catalog = << "N" >> ]
            ELSE rows[r] ]

\* entries with one of two ids and one of two names or none, and one whose gpt_id is a
\* blank; in at most two files
IndexCatalogs ==
    LET IndexDocs ==
            { [ NoFields EXCEPT !.gpt_id = g, !.name_en = n ] :
                g \in { ID_A, ID_A2 }, n \in { << >>, NAME_A, NAME_DESK } }
            \cup { [ NoFields EXCEPT !.gpt_id = << " " >>, !.name_en = NAME_A ] }
    IN  UNION { [ names -> Files(IndexDocs) ] : names \in SUBSET { FN_A, FN_C } }

\* one iteration of the loop of main() of the master-override builder: the row of the
\* gpt_id is updated or appended in the Korean and in the English sheet
Upsert ==
    /\ script = "build_gpt_index_master_override_from_catalog"
    /\ pc = "load"
    /\ unvisited # { }
    /\ LET fn == next_sorted
           raw == catalog[fn]
           \* read_yaml, extract_entry
           e == IF raw.kind \in { "error", "list" } THEN EMPTY_DICT ELSE raw.data
           gpt_id == strip(Or(e.gpt_id, Or(e.id, e._id)), Whitespace)
           snap == catalog_snapshot_from_entry(e)
           STATUS == { "name_ko__catalog", "name_en__catalog", "url__catalog",
                       "version__catalog", "last_updated__catalog", "present_in_catalog",
                       "last_seen", "changed", "changed_fields" }
           KO_HEADERS == { "gpt_id", "display_name_ko", "alias_ko", "keywords_ko",
                           "visibility", "show_url", "url_override" } \cup STATUS
           EN_HEADERS == { "gpt_id", "display_name_en", "keywords_en", "visibility",
                           "show_url", "url_override" } \cup STATUS
           upsert(rows, headers) ==
               LET found == { r \in DOMAIN rows : strip(rows[r].gpt_id, Whitespace) = gpt_id }
               IN  IF found = { }
                   THEN Append(rows,
                               update_row([ h \in headers |->
                                              IF h = "gpt_id" THEN gpt_id ELSE << >> ],
                                          snap, today_iso, TRUE))
                   ELSE LET r == CHOOSE x \in found : \A y \in found : x <= y
                        IN  [ rows EXCEPT ![r] = update_row(rows[r], snap, today_iso, FALSE) ]
       IN  /\ visited' = visited \cup { fn }
           /\ IF ~IsYamlName(fn) \/ raw.kind = "error" \/ e = EMPTY_DICT
              THEN UNCHANGED << wb, seen >>
              ELSE IF gpt_id = << >>
              THEN UNCHANGED << wb, seen >>
              ELSE /\ seen' = seen \cup { gpt_id }
                   /\ wb' = [ wb EXCEPT !.gpt_index_ko = upsert(@, KO_HEADERS),
                                        !.gpt_index_en = upsert(@, EN_HEADERS) ]
    /\ UNCHANGED << today_iso, call, atlas, previous, script, catalog, pc, all_loaded,
                    ko_entries, en_entries, url_to_en >>

\* the end of main(): the rows of the ids not met are marked, the workbook is saved
MarkMissing ==
    /\ script = "build_gpt_index_master_override_from_catalog"
    /\ pc = "load"
    /\ unvisited = { }
    /\ wb' = [ wb EXCEPT !.gpt_index_ko = mark_missing(@, seen),
                         !.gpt_index_en = mark_missing(@, seen) ]
    /\ pc' = "done"
    /\ UNCHANGED << seen, today_iso, call, atlas, previous, script, catalog, visited,
                    all_loaded, ko_entries, en_entries, url_to_en >>

\* one iteration of the loop of main() of the incremental builder
AppendNew ==
    /\ script = "build_gpt_index_incremental_from_catalog"
    /\ pc = "load"
    /\ unvisited # { }
    /\ LET fn == next_sorted
           raw == catalog[fn]
           e == IF raw.kind \in { "error", "list" } THEN EMPTY_DICT ELSE raw.data
           raw_id == Or(e.gpt_id, Or(e.id, e._id))
           gpt_id == strip(raw_id, Whitespace)
           row == [ gpt_id |-> gpt_id,
                    name |-> Or(e.name_en, Or(e.name, e.name_ko)),
                    url |-> e.url,
                    viz1 |-> << "p", "u", "b", "l", "i", "c" >>,
                    viz2 |-> << "s", "h", "o", "w", "_", "u", "r", "l" >> ]
       IN  /\ visited' = visited \cup { fn }
           /\ IF ~IsYamlName(fn) \/ raw.kind = "error" \/ e = EMPTY_DICT
              THEN UNCHANGED << wb, seen >>
              ELSE IF raw_id = << >> \/ gpt_id \in seen
              THEN UNCHANGED << wb, seen >>
              ELSE /\ wb' = [ wb EXCEPT !.index_base = Append(@, row) ]
                   /\ seen' = seen \cup { gpt_id }
    /\ UNCHANGED << today_iso, call, atlas, previous, script, catalog, pc, all_loaded,
                    ko_entries, en_entries, url_to_en >>

\* wb.save(OUT_XLSX)
SaveIndex ==
    /\ script = "build_gpt_index_incremental_from_catalog"
    /\ pc = "load"
    /\ unvisited = { }
    /\ pc' = "done"
    /\ UNCHANGED << wb, seen, today_iso, call, atlas, previous, script, catalog, visited,
                    all_loaded, ko_entries, en_entries, url_to_en >>

\* between two runs somebody takes a row of the master index in hand: the manual
\* columns get that person's values and the change mark is taken back
EditIndex ==
    /\ script = "build_gpt_index_master_override_from_catalog"
    /\ pc = "done"
    /\ previous = << >>
    /\ \E r \in DOMAIN wb.gpt_index_ko :
         LET mine == << "m", "i", "n", "e" >>
             manual == { "display_name_ko", "display_name_en", "alias_ko", "keywords_ko",
                         "keywords_en", "visibility", "show_url", "url_override" }
             edit(row) ==
                 [ h \in DOMAIN row |->
                     IF h \in manual THEN mine
                     ELSE IF h = "changed" THEN << "N" >>
                     ELSE IF h = "changed_fields" THEN << >>
                     ELSE row[h] ]
         IN  wb' = [ wb EXCEPT !.gpt_index_ko[r] = edit(@), !.gpt_index_en[r] = edit(@) ]
    /\ UNCHANGED << seen, today_iso, call, atlas, previous, script, catalog, visited, pc,
                    all_loaded, ko_entries, en_entries, url_to_en >>

\* the script is started again, the same day or another, on a catalog directory that
\* may have changed; load_existing_index reads the ids of the rows
RunAgain ==
    /\ script \in { "build_gpt_index_master_override_from_catalog",
                    "build_gpt_index_incremental_from_catalog" }
    /\ pc = "done"
    /\ previous = << >>
    /\ previous' = << catalog, wb >>
    /\ catalog' \in IndexCatalogs
    /\ today_iso' \in { str(d) : d \in 1..MaxDays }
    /\ visited' = { }
    /\ pc' = "load"
    /\ seen' = IF script = "build_gpt_index_incremental_from_catalog"
               THEN { strip(wb.index_base[r].gpt_id, Whitespace) :
                        r \in { x \in DOMAIN wb.index_base : wb.index_base[x].gpt_id # << >> } }
               ELSE { }
    /\ UNCHANGED << wb, call, atlas, script, all_loaded, ko_entries, en_entries, url_to_en >>

InitIndex ==
    InitRun({ "build_gpt_index_master_override_from_catalog",
              "build_gpt_index_incremental_from_catalog" }, IndexCatalogs)

NextIndex ==
    \/ Upsert
    \/ MarkMissing
    \/ AppendNew
    \/ SaveIndex
    \/ EditIndex
    \/ RunAgain

SpecIndex == InitIndex /\ [][NextIndex]_vars

(***************************************************************************)
(* What the properties of the index builders speak about.                  *)
(***************************************************************************)
MasterRuns == script = "build_gpt_index_master_override_from_catalog"
MasterSheets == { "gpt_index_ko", "gpt_index_en" }
ManualColumns ==
    { "display_name_ko", "display_name_en", "alias_ko", "keywords_ko", "keywords_en",
      "visibility", "show_url", "url_override" }
SnapshotColumns ==
    << "name_ko__catalog", "name_en__catalog", "url__catalog", "version__catalog",
       "last_updated__catalog" >>
Yes == << "Y" >>
No == << "N" >>
Mine == << "m", "i", "n", "e" >>

\* the gpt_id a file gives to the index builders, empty when it gives none
IndexIdOf(fn) ==
    IF IsYamlName(fn) /\ catalog[fn].kind = "mapping"
    THEN strip(Or(catalog[fn].data.gpt_id, Or(catalog[fn].data.id, catalog[fn].data._id)),
               Whitespace)
    ELSE << >>
\* the loop is about to take a file that has a gpt_id
TakesFile == pc = "load" /\ unvisited # { } /\ IndexIdOf(next_sorted) # << >>
\* the rows of a sheet that have the gpt_id
RowsOf(rows, id) == { r \in DOMAIN rows : rows[r].gpt_id = id }
\* the workbook and the catalog directory the second run began with
SecondRun == previous # << >>
CatalogBefore == previous[1]
WorkbookBefore == previous[2]

(***************************************************************************)
(* C26: the master-override builder never writes a manual column of a row  *)
(* that is in the sheet already; a row it appends gets its display name    *)
(* from the snapshot, the default visibility and show_url, and its other   *)
(* manual columns empty; and the snapshot columns of the row of the file   *)
(* it takes are those of the file after every step.                        *)
(***************************************************************************)
C26_ManualColumnsKept ==
    [][ ( MasterRuns /\ pc = "load" ) =>
          \A s \in MasterSheets :
              /\ \A r \in DOMAIN wb[s] :
                   /\ r \in DOMAIN wb'[s]
                   /\ \A h \in ManualColumns \cap DOMAIN wb[s][r] : wb'[s][r][h] = wb[s][r][h]
              /\ \A r \in DOMAIN wb'[s] \ DOMAIN wb[s] :
                   LET snap == catalog_snapshot_from_entry(catalog[next_sorted].data)
                   IN  \A h \in ManualColumns \cap DOMAIN wb'[s][r] :
                           wb'[s][r][h] =
                               CASE h = "display_name_ko" -> snap.name_ko__catalog
                                 [] h = "display_name_en" -> snap.name_en__catalog
                                 [] h = "visibility" -> << "p", "u", "b", "l", "i", "c" >>
                                 [] h = "show_url" -> << "s", "h", "o", "w", "_", "u", "r", "l" >>
                                 [] OTHER -> << >>
              /\ TakesFile =>
                   \E r \in RowsOf(wb'[s], IndexIdOf(next_sorted)) :
                       \A i \in DOMAIN SnapshotColumns :
                           wb'[s][r][SnapshotColumns[i]] =
                               catalog_snapshot_from_entry(catalog[next_sorted].data)
                                   [SnapshotColumns[i]]
      ]_vars

\* in the second run the row somebody had edited got another English name from the
\* catalog and kept the display name that person gave it
C26_Witness ==
    /\ MasterRuns
    /\ SecondRun
    /\ \E r \in DOMAIN WorkbookBefore.gpt_index_en :
         /\ wb.gpt_index_en[r].display_name_en = Mine
         /\ wb.gpt_index_en[r].last_seen = str(2)
         /\ WorkbookBefore.gpt_index_en[r].last_seen = str(1)
         /\ wb.gpt_index_en[r].name_en__catalog = NAME_DESK
         /\ WorkbookBefore.gpt_index_en[r].name_en__catalog = NAME_A

(***************************************************************************)
(* C27: when the master-override builder takes a file, the snapshot fields *)
(* of the file that differ from the cells of its row are found (for a new  *)
(* row, the fields that are not empty): if there are any, the row gets     *)
(* changed = Y and changed_fields = their names set apart by commas, and   *)
(* if there is none both cells stay as they were; no step of a run turns a *)
(* changed = Y into anything else.                                         *)
(***************************************************************************)
\* the fields of the snapshot snap that differ from the cells of the row
Differing(row, snap) ==
    SelectSeq(SnapshotColumns, LAMBDA f : strip(row[f], Whitespace) # snap[f])
\* names set apart by commas
CommaList(names) == join(<< "," >>, [ i \in DOMAIN names |-> << names[i] >> ])
\* the row a file meets in a sheet: its row, or a row of empty cells
RowMet(rows, id) ==
    IF RowsOf(rows, id) = { }
    THEN [ h \in { SnapshotColumns[i] : i \in DOMAIN SnapshotColumns } \cup { "changed", "changed_fields" } |-> << >> ]
    ELSE rows[CHOOSE r \in RowsOf(rows, id) : TRUE]

C27_ChangeDetection ==
    [][ ( MasterRuns /\ pc = "load" ) =>
          \A s \in MasterSheets :
              /\ \A r \in DOMAIN wb[s] : wb[s][r].changed = Yes => wb'[s][r].changed = Yes
              /\ TakesFile =>
                   LET id == IndexIdOf(next_sorted)
                       snap == catalog_snapshot_from_entry(catalog[next_sorted].data)
                       old == RowMet(wb[s], id)
                       new == RowMet(wb'[s], id)
                       diff == Differing(old, snap)
                   IN  IF diff # << >>
                       THEN new.changed = Yes /\ new.changed_fields = CommaList(diff)
                       ELSE new.changed = old.changed /\ new.changed_fields = old.changed_fields
      ]_vars

\* in the second run a row whose change mark had been taken back met another English
\* name and no other difference
C27_Witness ==
    /\ MasterRuns
    /\ SecondRun
    /\ \E r \in DOMAIN WorkbookBefore.gpt_index_ko :
         /\ WorkbookBefore.gpt_index_ko[r].changed = No
         /\ wb.gpt_index_ko[r].changed = Yes
         /\ wb.gpt_index_ko[r].changed_fields = << "name_en__catalog" >>

(***************************************************************************)
(* C28: the master-override builder never takes a row away nor gives it    *)
(* another gpt_id; when a run has ended, the rows of the gpt_ids of the    *)
(* catalog have present_in_catalog = Y and last_seen = the day of the run, *)
(* the other rows have present_in_catalog = N and are otherwise as they    *)
(* were when the run began; and no gpt_id has two rows in one sheet.       *)
(***************************************************************************)
CatalogIds == { IndexIdOf(fn) : fn \in DOMAIN catalog } \ { << >> }

C28_RowsKeptAndMarked ==
    MasterRuns =>
        \A s \in MasterSheets :
            /\ \A q, r \in DOMAIN wb[s] : wb[s][q].gpt_id = wb[s][r].gpt_id => q = r
            /\ SecondRun =>
                 \A r \in DOMAIN WorkbookBefore[s] :
                     r \in DOMAIN wb[s] /\ wb[s][r].gpt_id = WorkbookBefore[s][r].gpt_id
            /\ pc = "done" =>
                 \A r \in DOMAIN wb[s] :
                     IF wb[s][r].gpt_id \in CatalogIds
                     THEN /\ wb[s][r].present_in_catalog = Yes
                          /\ wb[s][r].last_seen = today_iso
                     ELSE /\ SecondRun
                          /\ wb[s][r] =
                                 [ WorkbookBefore[s][r] EXCEPT !.present_in_catalog = No ]

\* the second run, on another day, has ended: a row of the first run is marked N and
\* another is seen on the second day
C28_Witness ==
    /\ MasterRuns
    /\ SecondRun
    /\ pc = "done"
    /\ \E q, r \in DOMAIN wb.gpt_index_ko :
         /\ wb.gpt_index_ko[q].present_in_catalog = No
         /\ wb.gpt_index_ko[q].last_seen = str(1)
         /\ wb.gpt_index_ko[r].present_in_catalog = Yes
         /\ wb.gpt_index_ko[r].last_seen = str(2)

(***************************************************************************)
(* C29: when the master-override builder runs a second time on a catalog   *)
(* directory that has not changed, no file meets a difference: the file    *)
(* the loop is about to take has its row in both sheets, and the snapshot  *)
(* cells of the row are the snapshot of the file; this also when several   *)
(* files have the same gpt_id.                                             *)
(***************************************************************************)
C29_RerunMeetsNoDifference ==
    ( MasterRuns /\ SecondRun /\ catalog = CatalogBefore /\ TakesFile ) =>
        \A s \in MasterSheets :
            /\ RowsOf(wb[s], IndexIdOf(next_sorted)) # { }
            /\ Differing(RowMet(wb[s], IndexIdOf(next_sorted)),
                         catalog_snapshot_from_entry(catalog[next_sorted].data)) = << >>

(***************************************************************************)
(* C30: the incremental builder only appends: a step leaves the rows of    *)
(* the index as they are and appends at most one row, whose gpt_id no row  *)
(* of the index has; and when it has run a second time on a catalog        *)
(* directory that has not changed, the index is as the first run left it.  *)
(***************************************************************************)
IncrementalRuns == script = "build_gpt_index_incremental_from_catalog"

C30_OnlyAppends ==
    IncrementalRuns =>
        /\ \A q, r \in DOMAIN wb.index_base :
               wb.index_base[q].gpt_id = wb.index_base[r].gpt_id => q = r
        /\ SecondRun =>
               /\ Len(WorkbookBefore.index_base) <= Len(wb.index_base)
               /\ SubSeq(wb.index_base, 1, Len(WorkbookBefore.index_base))
                      = WorkbookBefore.index_base
               /\ catalog = CatalogBefore => wb.index_base = WorkbookBefore.index_base

====
